---------------------------- MODULE Spec2Model ----------------------------
(***************************************************************************)
(* A model of rdflib-neo4j's Neo4jStore: the triple-to-graph translation   *)
(* engine (Neo4jTriple accumulator, NodeQueryComposer,                     *)
(* RelationshipQueryComposer, Neo4jStore orchestrator) together with the   *)
(* effect of its two Cypher statements on the database.                    *)
(*                                                                         *)
(* Strings that the code inspects character by character (URIs, literal    *)
(* lexical forms, property names, label keys) are sequences of tokens: the *)
(* separators "#", "/", ":" and "," are tokens of their own, every other   *)
(* token is a run of characters holding no separator.                      *)
(***************************************************************************)
EXTENDS Integers, Sequences, FiniteSets, TLC

(***************************************************************************)
(* Bounds of the model.                                                    *)
(***************************************************************************)
\* number of add / commit / close calls of one behaviour
MaxOps == 3
\* largest configured batch_size (buffer_max_size)
MaxBatch == 2
\* a driver failure is injected at the MaxFail-th query of a call at the latest
MaxFail == 2
\* number of add calls of one twin import (SpecEquiv, SpecIdem)
MaxStream == 5
\* number of commit calls of one twin import
MaxCommits == 2

(***************************************************************************)
(* Generic helpers.                                                        *)
(***************************************************************************)
Range(f) == {f[i] : i \in DOMAIN f}

\* Array.prototype.includes / val IN list
Includes(seq, x) == \E i \in 1..Len(seq) : seq[i] = x

RECURSIVE ConcatAll(_)
ConcatAll(seqs) ==
  IF seqs = <<>> THEN <<>> ELSE Head(seqs) \o ConcatAll(Tail(seqs))

(***************************************************************************)
(* config/const.ts                                                         *)
(***************************************************************************)
SHORTEN == "SHORTEN"
MAP == "MAP"
KEEP == "KEEP"
IGNORE == "IGNORE"
HANDLE_VOCAB_URI_STRATEGY == {SHORTEN, MAP, KEEP, IGNORE}

OVERWRITE == "OVERWRITE"
ARRAY == "ARRAY"
HANDLE_MULTIVAL_STRATEGY == {OVERWRITE, ARRAY}

\* the prefixes of the configuration (a part of DEFAULT_PREFIXES)
DEFAULT_PREFIXES ==
  [p \in {"rdf", "ex"} |->
     IF p = "rdf" THEN <<"rdf", "#">> ELSE <<"ex", "/">>]

(***************************************************************************)
(* utils.ts: the URI strategy resolver.                                    *)
(***************************************************************************)
\* String.prototype.lastIndexOf, 1-based; 0 when ch does not occur (JS: -1)
LastIndexOf(uri, ch) ==
  LET hits == {i \in 1..Len(uri) : uri[i] = ch}
  IN  IF hits = {} THEN 0 ELSE CHOOSE i \in hits : \A j \in hits : j <= i

\* a separator search that prefers "/" to "#"
SeparatorPosSlashFirst(uri) ==
  IF LastIndexOf(uri, "/") > 0 THEN LastIndexOf(uri, "/")
  ELSE IF LastIndexOf(uri, "#") > 0 THEN LastIndexOf(uri, "#")
  ELSE LastIndexOf(uri, ":")

SeparatorPos(uri) ==
  IF LastIndexOf(uri, "#") > 0 THEN LastIndexOf(uri, "#")
  ELSE IF LastIndexOf(uri, "/") > 0 THEN LastIndexOf(uri, "/")
  ELSE LastIndexOf(uri, ":")

getLocalPart(uri) == SubSeq(uri, SeparatorPos(uri) + 1, Len(uri))

getNamespacePart(uri) == SubSeq(uri, 1, SeparatorPos(uri))

handle_vocab_uri_ignore(predicate) == getLocalPart(predicate)

create_shortened_predicate(namespace, local_part) ==
  <<namespace, "__">> \o local_part

\* the inverse prefix table of __create_current_subject: namespace -> prefix
ReversedPrefixes(prefixes) ==
  [ns \in Range(prefixes) |-> CHOOSE p \in DOMAIN prefixes : prefixes[p] = ns]

\* a result of the resolver: a name, or the ShortenStrictException it throws
Name(v) == [throws |-> FALSE, value |-> v]
ShortenStrictException(ns) == [throws |-> TRUE, value |-> ns]

\* a resolver that falls back on the local part when the namespace is unknown
ShortenWithFallback(predicate, prefixes) ==
  LET ns == getNamespacePart(predicate)
      local_part == getLocalPart(predicate)
  IN  IF ns \in DOMAIN prefixes
      THEN Name(create_shortened_predicate(prefixes[ns], local_part))
      ELSE Name(handle_vocab_uri_ignore(predicate))

handle_vocab_uri_shorten(predicate, prefixes) ==
  LET ns == getNamespacePart(predicate)
      local_part == getLocalPart(predicate)
  IN  IF ns \in DOMAIN prefixes
      THEN Name(create_shortened_predicate(prefixes[ns], local_part))
      ELSE ShortenStrictException(ns)

handle_vocab_uri_map(mappings, predicate) ==
  IF predicate \in DOMAIN mappings THEN mappings[predicate] ELSE predicate

handle_vocab_uri(mappings, predicate, prefixes, strategy) ==
  IF strategy = SHORTEN THEN handle_vocab_uri_shorten(predicate, prefixes)
  ELSE IF strategy = MAP THEN
    LET res == handle_vocab_uri_map(mappings, predicate)
    IN  IF res = predicate THEN Name(handle_vocab_uri_ignore(predicate))
        ELSE Name(res)
  ELSE IF strategy = KEEP THEN Name(predicate)
  ELSE Name(handle_vocab_uri_ignore(predicate))


(***************************************************************************)
(* RDF/JS terms.  id tells two term objects of equal value apart (a JS Set *)
(* of terms compares object identity).                                     *)
(***************************************************************************)
NoDatatype == <<>>

NamedNode(uri, id) ==
  [termType |-> "NamedNode", value |-> uri, datatype |-> NoDatatype, id |-> id]

BlankNode(label, id) ==
  [termType |-> "BlankNode", value |-> <<label>>, datatype |-> NoDatatype, id |-> id]

LiteralTerm(lexical, datatype) ==
  [termType |-> "Literal", value |-> lexical, datatype |-> datatype, id |-> 0]

Quad(s, p, o) == [subject |-> s, predicate |-> p, object |-> o]

RDF_TYPE == <<"rdf", "#", "type">>
XSD_STRING == <<"xsd", "#", "string">>
XSD_INTEGER == <<"xsd", "#", "integer">>
XSD_BOOLEAN == <<"xsd", "#", "boolean">>
XSD_INT == <<"xsd", "#", "int">>
XSD_DATE == <<"xsd", "#", "date">>
XSD_DATETIME == <<"xsd", "#", "dateTime">>
XSD_TIME == <<"xsd", "#", "time">>

(***************************************************************************)
(* JavaScript values of a row: strings, numbers and booleans.              *)
(***************************************************************************)
Str(tokens) == [kind |-> "string", v |-> tokens]
\* a number, by its canonical decimal digits
Num(digits) == [kind |-> "number", v |-> digits]
Bool(b) == [kind |-> "boolean", v |-> <<IF b THEN "true" ELSE "false">>]
NaN == Num(<<"NaN">>)

Digits == {"0", "1", "2", "3", "4", "5", "6", "7", "8", "9"}

\* the lexical forms of the model that Number() reads as a finite integer
LooksNumeric(tokens) == tokens # <<>> /\ \A i \in 1..Len(tokens) : tokens[i] \in Digits

\* the digits of the number that a digit string denotes: no leading zero
RECURSIVE StripZeros(_)
StripZeros(tokens) ==
  IF Len(tokens) > 1 /\ Head(tokens) = "0" THEN StripZeros(Tail(tokens)) ELSE tokens

\* parseInt(String(value), 10)
ParseInt(val) ==
  IF val.kind = "number" THEN val
  ELSE IF val.kind = "string" /\ LooksNumeric(val.v) THEN Num(StripZeros(val.v))
  ELSE NaN

\* datatypeUri.includes('integer') || datatypeUri.includes('int')
IncludesInt(datatype) == getLocalPart(datatype) \in {<<"integer">>, <<"int">>}

\* includes('float') || includes('double') || includes('decimal')
IncludesFloat(datatype) ==
  getLocalPart(datatype) \in {<<"float">>, <<"double">>, <<"decimal">>}

IncludesBoolean(datatype) == getLocalPart(datatype) = <<"boolean">>

\* value === 'true' || value === true || value === 1
IsTrue(val) ==
  \/ val.kind = "string" /\ val.v = <<"true">>
  \/ val.kind = "boolean" /\ val.v = <<"true">>
  \/ val.kind = "number" /\ val.v = <<"1">>

\* parse_triple's conversion of the lexical value (lines 182-215)
ConvertValue(literal) ==
  LET value == Str(literal.value)
  IN  IF literal.datatype # NoDatatype THEN
        IF IncludesInt(literal.datatype) THEN ParseInt(value)
        ELSE IF IncludesFloat(literal.datatype) THEN ParseInt(value)
        ELSE IF IncludesBoolean(literal.datatype) THEN Bool(IsTrue(value))
        ELSE value
      ELSE IF LooksNumeric(literal.value) THEN ParseInt(value)
      ELSE value

\* DataFactory.literal(value, literal.datatype)
ConvertedLiteral(value, datatype) == [value |-> value, datatype |-> datatype]

\* a literalToValue that converts by datatype only
LiteralToValueByDatatype(literal) ==
  LET value == literal.value
  IN  IF literal.datatype # NoDatatype /\ IncludesInt(literal.datatype)
        THEN ParseInt(value)
      ELSE IF literal.datatype # NoDatatype /\ IncludesFloat(literal.datatype)
        THEN ParseInt(value)
      ELSE IF literal.datatype # NoDatatype /\ IncludesBoolean(literal.datatype)
        THEN Bool(IsTrue(value))
      ELSE value

literalToValue(literal) ==
  LET value == literal.value
  IN  IF literal.datatype # NoDatatype /\ IncludesInt(literal.datatype)
        THEN ParseInt(value)
      ELSE IF literal.datatype # NoDatatype /\ IncludesFloat(literal.datatype)
        THEN ParseInt(value)
      ELSE IF literal.datatype # NoDatatype /\ IncludesBoolean(literal.datatype)
        THEN Bool(IsTrue(value))
      ELSE IF value.kind = "string" /\ LooksNumeric(value.v) THEN ParseInt(value)
      ELSE value

(***************************************************************************)
(* Neo4jTriple.ts: the subject accumulator.  props and multi_props are     *)
(* functions from property names; labels and each relationship list are    *)
(* insertion-ordered sequences without repetition (JS Set); relationships  *)
(* is an insertion-ordered sequence of entries (JS Map).                   *)
(***************************************************************************)
EmptyMap == <<>>

MapSet(m, k, v) == [x \in DOMAIN m \cup {k} |-> IF x = k THEN v ELSE m[x]]

\* Set.prototype.add on an insertion-ordered set
SetAdd(seq, x) == IF Includes(seq, x) THEN seq ELSE Append(seq, x)

Neo4jTriple(uri, handle_vocab_uri_strategy, handle_multival_strategy, multival_props_names, prefixes) ==
  [uri |-> uri,
   labels |-> <<>>,
   props |-> EmptyMap,
   multi_props |-> EmptyMap,
   relationships |-> <<>>,
   handle_vocab_uri_strategy |-> handle_vocab_uri_strategy,
   handle_multival_strategy |-> handle_multival_strategy,
   multival_props_names |-> multival_props_names,
   prefixes |-> prefixes]

\* an add_label that records the label as a relationship type as well
AddLabelAndRelationship(t, label) ==
  [t EXCEPT !.labels = SetAdd(t.labels, label),
            !.relationships = Append(t.relationships, [rel_type |-> label, nodes |-> <<>>])]

add_label(t, label) == [t EXCEPT !.labels = SetAdd(t.labels, label)]

\* an add_prop whose multi-valued property keeps its last value only
AddPropKeepsLast(t, prop_name, value, multi) ==
  IF multi
  THEN [t EXCEPT !.multi_props = MapSet(t.multi_props, prop_name, <<value>>)]
  ELSE [t EXCEPT !.props = MapSet(t.props, prop_name, value)]

add_prop(t, prop_name, value, multi) ==
  IF multi
  THEN [t EXCEPT !.multi_props =
          MapSet(t.multi_props, prop_name,
                 Append(IF prop_name \in DOMAIN t.multi_props
                        THEN t.multi_props[prop_name] ELSE <<>>, value))]
  ELSE [t EXCEPT !.props = MapSet(t.props, prop_name, value)]

RelIndex(t, rel_type) ==
  LET hits == {i \in 1..Len(t.relationships) : t.relationships[i].rel_type = rel_type}
  IN  IF hits = {} THEN 0 ELSE CHOOSE i \in hits : TRUE

add_rel(t, rel_type, to_resource) ==
  LET rels == IF RelIndex(t, rel_type) = 0
              THEN Append(t.relationships, [rel_type |-> rel_type, nodes |-> <<>>])
              ELSE t.relationships
      i == IF RelIndex(t, rel_type) = 0 THEN Len(rels) ELSE RelIndex(t, rel_type)
  IN  [t EXCEPT !.relationships =
         [rels EXCEPT ![i].nodes = SetAdd(rels[i].nodes, to_resource)]]

\* Array.prototype.join(',')
RECURSIVE Join(_)
Join(names) ==
  IF names = <<>> THEN <<>>
  ELSE IF Len(names) = 1 THEN names[1]
  ELSE names[1] \o <<",">> \o Join(Tail(names))

RESOURCE == <<"Resource">>

extract_label_key(t) == IF Len(t.labels) > 0 THEN Join(t.labels) ELSE RESOURCE

extract_labels(t) == t.labels

URI_KEY == <<"uri">>

\* Neo4jTriple.termToString on the subject
TripleTermToString(term) == term.value

extract_params(t) ==
  LET keys == DOMAIN t.props \cup {URI_KEY} \cup DOMAIN t.multi_props
  IN  [k \in keys |->
         IF k \in DOMAIN t.multi_props
           THEN [kind |-> "array",
                 v |-> [i \in 1..Len(t.multi_props[k]) |->
                          literalToValue(t.multi_props[k][i])]]
         ELSE IF k = URI_KEY THEN Str(TripleTermToString(t.uri))
         ELSE literalToValue(t.props[k])]

extract_props_names(t, multi) ==
  IF ~multi THEN DOMAIN t.props ELSE DOMAIN t.multi_props

extract_rels(t) == t.relationships

TripleHandleVocabUri(t, mappings, predicate) ==
  handle_vocab_uri(mappings, predicate.value, t.prefixes, t.handle_vocab_uri_strategy)

\* the outcome of parse_triple: the accumulator, or the exception thrown
Parsed(t) == [throws |-> FALSE, triple |-> t]
ParseThrows(t) == [throws |-> TRUE, triple |-> t]

\* a parse_triple without the check of lines 172-175
ParseTripleAnyPredicate(t, quad, mappings) ==
  LET predicate == quad.predicate
      object == quad.object
  IN
  IF object.termType = "Literal" THEN
    LET value == ConvertValue(object)
        prop_name == TripleHandleVocabUri(t, mappings, predicate)
        convertedLiteral == ConvertedLiteral(value, object.datatype)
    IN  IF prop_name.throws THEN ParseThrows(t)
        ELSE IF /\ t.handle_multival_strategy = ARRAY
                /\ Includes(t.multival_props_names, predicate.value)
          THEN Parsed(add_prop(t, prop_name.value, convertedLiteral, TRUE))
        ELSE IF /\ t.handle_multival_strategy = ARRAY
                /\ Len(t.multival_props_names) = 0
          THEN Parsed(add_prop(t, prop_name.value, convertedLiteral, TRUE))
        ELSE Parsed(add_prop(t, prop_name.value, convertedLiteral, FALSE))
  ELSE IF predicate.value = RDF_TYPE THEN
    IF object.termType = "NamedNode" THEN
      LET label == TripleHandleVocabUri(t, mappings, object)
      IN  IF label.throws THEN ParseThrows(t)
          ELSE Parsed(add_label(t, label.value))
    ELSE Parsed(t)
  ELSE
    IF object.termType = "NamedNode" THEN
      LET rel_type == TripleHandleVocabUri(t, mappings, predicate)
      IN  IF rel_type.throws THEN ParseThrows(t)
          ELSE Parsed(add_rel(t, rel_type.value, object))
    ELSE Parsed(t)

parse_triple(t, quad, mappings) ==
  LET predicate == quad.predicate
      object == quad.object
  IN
  IF predicate.termType # "NamedNode" THEN Parsed(t)
  ELSE IF object.termType = "Literal" THEN
    LET value == ConvertValue(object)
        prop_name == TripleHandleVocabUri(t, mappings, predicate)
        convertedLiteral == ConvertedLiteral(value, object.datatype)
    IN  IF prop_name.throws THEN ParseThrows(t)
        ELSE IF /\ t.handle_multival_strategy = ARRAY
                /\ Includes(t.multival_props_names, predicate.value)
          THEN Parsed(add_prop(t, prop_name.value, convertedLiteral, TRUE))
        ELSE IF /\ t.handle_multival_strategy = ARRAY
                /\ Len(t.multival_props_names) = 0
          THEN Parsed(add_prop(t, prop_name.value, convertedLiteral, TRUE))
        ELSE Parsed(add_prop(t, prop_name.value, convertedLiteral, FALSE))
  ELSE IF predicate.value = RDF_TYPE THEN
    IF object.termType = "NamedNode" THEN
      LET label == TripleHandleVocabUri(t, mappings, object)
      IN  IF label.throws THEN ParseThrows(t)
          ELSE Parsed(add_label(t, label.value))
    ELSE Parsed(t)
  ELSE
    IF object.termType = "NamedNode" THEN
      LET rel_type == TripleHandleVocabUri(t, mappings, predicate)
      IN  IF rel_type.throws THEN ParseThrows(t)
          ELSE Parsed(add_rel(t, rel_type.value, object))
    ELSE Parsed(t)

(***************************************************************************)
(* query_composers/NodeQueryComposer.ts                                    *)
(***************************************************************************)
NodeQueryComposer(labels, handle_multival_strategy, multival_props_predicates) ==
  [labels |-> labels,
   props |-> {},
   multi_props |-> {},
   query_params |-> <<>>,
   handle_multival_strategy |-> handle_multival_strategy,
   multival_props_predicates |-> multival_props_predicates]

NodeAddProps(c, props, multi) ==
  IF ~multi THEN [c EXCEPT !.props = c.props \cup props]
  ELSE [c EXCEPT !.multi_props = c.multi_props \cup props]

\* an add_query_param that keeps one consolidated row for each uri
NodeAddQueryParamPerSubject(c, param) ==
  LET same == {i \in 1..Len(c.query_params) : c.query_params[i][URI_KEY] = param[URI_KEY]}
  IN  IF same = {} THEN [c EXCEPT !.query_params = Append(c.query_params, param)]
      ELSE [c EXCEPT !.query_params =
              [i \in 1..Len(c.query_params) |->
                 IF i \in same THEN param @@ c.query_params[i] ELSE c.query_params[i]]]

NodeAddQueryParam(c, param) == [c EXCEPT !.query_params = Append(c.query_params, param)]

\* The statement of write_query / write_prop_query, by what it sets: the
\* labels of the SET n:... clause, the properties assigned by
\* prop_query_single and those assigned by prop_query_append.
NodeWriteQuery(c) ==
  LET withProps == c.props # {} \/ c.multi_props # {}
  IN  [kind |-> "node",
       labels |-> c.labels,
       single |->
         IF ~withProps THEN {}
         ELSE IF c.handle_multival_strategy = ARRAY
           THEN IF Len(c.multival_props_predicates) > 0 THEN c.props ELSE {}
         ELSE c.props,
       append |->
         IF ~withProps THEN {}
         ELSE IF c.handle_multival_strategy = ARRAY THEN c.multi_props
         ELSE {}]

NodeIsRedundant(c) == c.props = {} /\ c.labels = <<>> /\ Len(c.query_params) = 0

\* an empty_query_params that also forgets the property names
NodeEmptyEverything(c) == [c EXCEPT !.query_params = <<>>, !.props = {}, !.multi_props = {}]

NodeEmptyQueryParams(c) == [c EXCEPT !.query_params = <<>>]

(***************************************************************************)
(* query_composers/RelationshipQueryComposer.ts                            *)
(***************************************************************************)
RelationshipQueryComposer(rel_type) ==
  [rel_type |-> rel_type, props |-> {}, query_params |-> <<>>]

RelAddQueryParam(c, from_node, to_node) ==
  [c EXCEPT !.query_params = Append(c.query_params, [from |-> from_node, to |-> to_node])]

AddPropsError == "TO WORK ON THIS, WE NEED TEST DATA"
NotImplementedError == "Not implemented"

\* an add_props that accepts the empty set
RelAddPropsUnlessEmpty(c, props) ==
  [composer |-> [c EXCEPT !.props = @ \cup props],
   error |-> IF props = {} THEN "none" ELSE AddPropsError]

\* add_props (lines 27-38): the names are added, then the call throws
RelAddProps(c, props) ==
  [composer |-> [c EXCEPT !.props = @ \cup props], error |-> AddPropsError]

\* write_query throws when the composer has properties (lines 63-66)
RelWriteQueryThrows(c) == c.props # {}

RelWriteQuery(c) == [kind |-> "rel", rel_type |-> c.rel_type]

\* an is_redundant that finds no composer redundant
RelNeverRedundant(c) == FALSE

RelIsRedundant(c) == Len(c.query_params) = 0

RelEmptyQueryParams(c) == [c EXCEPT !.query_params = <<>>]

(***************************************************************************)
(* The database: what the two statements do to the graph.  nodes maps the  *)
(* uri of every Resource node to its labels and properties; rels is the    *)
(* set of typed edges.                                                     *)
(***************************************************************************)
EmptyDb == [nodes |-> EmptyMap, rels |-> {}]

\* MERGE (n:Resource{ uri : u })
MergeNode(db, u) ==
  IF u \in DOMAIN db.nodes THEN db
  ELSE [db EXCEPT !.nodes =
          MapSet(db.nodes, u, [labels |-> {RESOURCE}, props |-> (URI_KEY :> u)])]

\* an assignment without the COALESCE: a row that omits the property unsets it
PropQuerySingleNoCoalesce(node, param, prop) ==
  IF prop \in DOMAIN param
  THEN [node EXCEPT !.props = MapSet(node.props, prop, param[prop])]
  ELSE [node EXCEPT !.props = [x \in DOMAIN node.props \ {prop} |-> node.props[x]]]

\* n.`prop` = COALESCE(param.`prop`, n.`prop`)
PropQuerySingle(node, param, prop) ==
  IF prop \in DOMAIN param
  THEN [node EXCEPT !.props = MapSet(node.props, prop, param[prop])]
  ELSE node

\* REDUCE(i = start, val IN vals | CASE WHEN val IN i THEN i ELSE i+val END)
RECURSIVE ReduceAppend(_, _)
ReduceAppend(start, vals) ==
  IF vals = <<>> THEN start
  ELSE ReduceAppend(IF Includes(start, Head(vals)) THEN start
                    ELSE Append(start, Head(vals)), Tail(vals))

\* an append that skips the membership test of the REDUCE
PropQueryAppendNoDedup(node, param, prop) ==
  IF prop \in DOMAIN param
  THEN [node EXCEPT !.props =
          MapSet(node.props, prop,
                 [kind |-> "array",
                  v |-> (IF prop \in DOMAIN node.props
                         THEN node.props[prop].v ELSE <<>>) \o param[prop].v])]
  ELSE node

\* n.`prop` = CASE WHEN param.`prop` IS NULL THEN n.`prop` ELSE REDUCE(...) END
PropQueryAppend(node, param, prop) ==
  IF prop \in DOMAIN param
  THEN [node EXCEPT !.props =
          MapSet(node.props, prop,
                 [kind |-> "array",
                  v |-> ReduceAppend(IF prop \in DOMAIN node.props
                                     THEN node.props[prop].v ELSE <<>>,
                                     param[prop].v)])]
  ELSE node

RECURSIVE SetEach(_, _, _, _)
SetEach(node, param, props, multi) ==
  IF props = {} THEN node
  ELSE LET prop == CHOOSE x \in props : TRUE
       IN  SetEach(IF multi THEN PropQueryAppend(node, param, prop)
                   ELSE PropQuerySingle(node, param, prop),
                   param, props \ {prop}, multi)

\* one row of UNWIND $params as param MERGE (n:Resource{uri: param.uri}) SET ...
NodeRow(db, query, param) ==
  LET u == param[URI_KEY]
      merged == MergeNode(db, u)
      node == merged.nodes[u]
      labelled == [node EXCEPT !.labels = node.labels \cup Range(query.labels)]
      single == SetEach(labelled, param, query.single, FALSE)
      appended == SetEach(single, param, query.append, TRUE)
  IN  [merged EXCEPT !.nodes[u] = appended]

\* a relationship statement that matches its endpoints instead of merging them
RelRowMatch(db, query, param) ==
  IF Str(param.from) \in DOMAIN db.nodes /\ Str(param.to) \in DOMAIN db.nodes
  THEN [db EXCEPT !.rels =
          db.rels \cup {[rel_type |-> query.rel_type,
                         from |-> param.from, to |-> param.to]}]
  ELSE db

\* one row of the relationship statement: both endpoints and the edge merged
RelRow(db, query, param) ==
  LET merged == MergeNode(MergeNode(db, Str(param.from)), Str(param.to))
  IN  [merged EXCEPT !.rels =
         merged.rels \cup {[rel_type |-> query.rel_type,
                            from |-> param.from, to |-> param.to]}]

RECURSIVE ExecuteQuery(_, _, _)
ExecuteQuery(db, query, params) ==
  IF params = <<>> THEN db
  ELSE ExecuteQuery(IF query.kind = "node" THEN NodeRow(db, query, Head(params))
                    ELSE RelRow(db, query, Head(params)),
                    query, Tail(params))

(***************************************************************************)
(* config/utils.ts: the authentication data.  auth_data is <<>> (null) or  *)
(* a one-element sequence holding a record of some of the required fields; *)
(* a value is "" (empty) or a string.                                      *)
(***************************************************************************)
NEO4J_AUTH_REQUIRED_FIELDS == <<"uri", "database", "user", "pwd">>

AuthMissingError == "Please define the authentication dict."
WrongAuthenticationException == "WrongAuthenticationException"
EmptyValueError == "The key is defined in the authentication dict but the value is empty."
BothSourcesError == "Either initialize the store with credentials or driver. You cannot do both."

\* the loop of check_auth_data over the required fields
RECURSIVE CheckFields(_, _)
CheckFields(auth, fields) ==
  IF fields = <<>> THEN "none"
  ELSE IF Head(fields) \notin DOMAIN auth THEN WrongAuthenticationException
  ELSE IF auth[Head(fields)] = "" THEN EmptyValueError
  ELSE CheckFields(auth, Tail(fields))

check_auth_data(auth) ==
  IF auth = <<>> THEN AuthMissingError
  ELSE CheckFields(auth[1], NEO4J_AUTH_REQUIRED_FIELDS)

(***************************************************************************)
(* Neo4jStore.ts: the store orchestrator.  node_buffer and rel_buffer are  *)
(* insertion-ordered maps: sequences of [key, composer] entries.           *)
(* current_subject is <<>> (null) or a one-element sequence, and so is     *)
(* driver; a driver is known by who created it and by whether it has been  *)
(* closed.                                                                 *)
(***************************************************************************)
NoDriver == <<>>

Driver(creator) == [creator |-> creator, closed |-> FALSE]

\* the driver that the caller creates and hands to the constructor
SuppliedDriver == <<Driver("caller")>>

\* the error the constructor throws, "none" when it returns (lines 46-55)
ConstructorError(config, neo4j_driver) ==
  IF neo4j_driver = NoDriver THEN check_auth_data(config.auth_data)
  ELSE IF config.auth_data # <<>> THEN BothSourcesError
  ELSE "none"

Neo4jStore(config, neo4j_driver) ==
  [open |-> FALSE,
   session |-> FALSE,
   driver |-> neo4j_driver,
   driver_owned |-> neo4j_driver = NoDriver,
   config |-> config,
   batching |-> config.batching,
   buffer_max_size |-> config.batch_size,
   total_triples |-> 0,
   node_buffer_size |-> 0,
   rel_buffer_size |-> 0,
   node_buffer |-> <<>>,
   rel_buffer |-> <<>>,
   current_subject |-> <<>>,
   mappings |-> config.custom_mappings,
   handle_vocab_uri_strategy |-> config.handle_vocab_uri_strategy,
   handle_multival_strategy |-> config.handle_multival_strategy,
   multival_props_predicates |-> config.multival_props_names]

\* new Neo4jStore(config, neo4j_driver): the error thrown, and the store the
\* caller receives, none when the constructor throws
New(config, neo4j_driver) ==
  [error |-> ConstructorError(config, neo4j_driver),
   store |-> IF ConstructorError(config, neo4j_driver) = "none"
             THEN <<Neo4jStore(config, neo4j_driver)>> ELSE <<>>]

\* Map.prototype.has / get: the position of key in the map, 0 when absent
MapIndex(buffer, key) ==
  LET hits == {i \in 1..Len(buffer) : buffer[i].key = key}
  IN  IF hits = {} THEN 0 ELSE CHOOSE i \in hits : TRUE

\* Neo4jStore.termToString
termToString(term) == term.value

__store_current_subject_props(store) ==
  IF store.current_subject = <<>> THEN store
  ELSE
    LET subject == store.current_subject[1]
        label_key == extract_label_key(subject)
        buffer ==
          IF MapIndex(store.node_buffer, label_key) = 0
          THEN Append(store.node_buffer,
                      [key |-> label_key,
                       composer |-> NodeQueryComposer(extract_labels(subject),
                                      store.handle_multival_strategy,
                                      store.multival_props_predicates)])
          ELSE store.node_buffer
        i == MapIndex(buffer, label_key)
        withProps == NodeAddProps(buffer[i].composer,
                                  extract_props_names(subject, FALSE), FALSE)
        withMulti == NodeAddProps(withProps, extract_props_names(subject, TRUE), TRUE)
        composer == NodeAddQueryParam(withMulti, extract_params(subject))
    IN  [store EXCEPT !.node_buffer = [buffer EXCEPT ![i].composer = composer],
                      !.node_buffer_size = @ + 1]

\* the inner loop of __store_current_subject_rels over one relationship type
RECURSIVE StoreRelNodes(_, _, _, _)
StoreRelNodes(store, i, fromUri, to_nodes) ==
  IF to_nodes = <<>> THEN store
  ELSE StoreRelNodes(
         [store EXCEPT !.rel_buffer[i].composer =
                          RelAddQueryParam(@, fromUri, termToString(Head(to_nodes))),
                       !.rel_buffer_size = @ + 1],
         i, fromUri, Tail(to_nodes))

RECURSIVE StoreRelTypes(_, _)
StoreRelTypes(store, rels) ==
  IF rels = <<>> THEN store
  ELSE
    LET rel_type == Head(rels).rel_type
        buffer ==
          IF MapIndex(store.rel_buffer, rel_type) = 0
          THEN Append(store.rel_buffer,
                      [key |-> rel_type, composer |-> RelationshipQueryComposer(rel_type)])
          ELSE store.rel_buffer
        i == MapIndex(buffer, rel_type)
    IN  StoreRelTypes(
          StoreRelNodes([store EXCEPT !.rel_buffer = buffer], i,
                        termToString(store.current_subject[1].uri), Head(rels).nodes),
          Tail(rels))

__store_current_subject_rels(store) ==
  IF store.current_subject = <<>> THEN store
  ELSE StoreRelTypes(store, extract_rels(store.current_subject[1]))

__store_current_subject(store) ==
  __store_current_subject_rels(__store_current_subject_props(store))

__create_current_subject(store, subject) ==
  Neo4jTriple(subject, store.handle_vocab_uri_strategy, store.handle_multival_strategy,
              store.multival_props_predicates, ReversedPrefixes(store.config.prefixes))

\* a subject change that hands the accumulated data on to the next subject
CheckCurrentSubjectKeepsData(store, subject) ==
  IF store.current_subject = <<>>
  THEN [store EXCEPT !.current_subject = <<__create_current_subject(store, subject)>>]
  ELSE IF termToString(store.current_subject[1].uri) # termToString(subject)
  THEN [__store_current_subject(store) EXCEPT
          !.current_subject = <<[store.current_subject[1] EXCEPT !.uri = subject]>>]
  ELSE store

__check_current_subject(store, subject) ==
  IF store.current_subject = <<>>
  THEN [store EXCEPT !.current_subject = <<__create_current_subject(store, subject)>>]
  ELSE IF termToString(store.current_subject[1].uri) # termToString(subject)
  THEN [__store_current_subject(store) EXCEPT
          !.current_subject = <<__create_current_subject(store, subject)>>]
  ELSE store

RECURSIVE EmptyAllNodes(_)
EmptyAllNodes(buffer) ==
  IF buffer = <<>> THEN <<>>
  ELSE <<[Head(buffer) EXCEPT !.composer = NodeEmptyQueryParams(@)]>>
       \o EmptyAllNodes(Tail(buffer))

RECURSIVE EmptyAllRels(_)
EmptyAllRels(buffer) ==
  IF buffer = <<>> THEN <<>>
  ELSE <<[Head(buffer) EXCEPT !.composer = RelEmptyQueryParams(@)]>>
       \o EmptyAllRels(Tail(buffer))

\* an error path that forgets the relationship buffers
CloseOnErrorNodesOnly(store) == [store EXCEPT !.node_buffer = EmptyAllNodes(@)]

__close_on_error(store) ==
  [store EXCEPT !.node_buffer = EmptyAllNodes(@), !.rel_buffer = EmptyAllRels(@)]

(***************************************************************************)
(* A call in progress: the store, the database, the queries the call has   *)
(* handed to the driver so far, and the error it is throwing ("none" while *)
(* it runs normally).  failAt is the driver's behaviour during the call:   *)
(* the failAt-th query of the call fails (0: none does).                   *)
(***************************************************************************)
Call(store, db) ==
  [store |-> store, db |-> db, sent |-> <<>>, schema |-> <<>>, released |-> <<>>,
   error |-> "none"]

Throw(r, error) == [r EXCEPT !.error = error]

NotOpenError == "The Store must be open."
SessionError == "Session not initialized"
ShortenStrictError == "ShortenStrictException"
DriverError == "DriverError"

Dispatch(query, params, ok, buffer_key) ==
  [query |-> query, params |-> params, ok |-> ok, key |-> buffer_key]

(***************************************************************************)
(* utils.ts, const.ts: handle_neo4j_driver_exception.  An error object is  *)
(* known by its message; "" is an error without message.                   *)
(***************************************************************************)
NEO4J_DRIVER_MULTIPLE_TYPE_ERROR_MESSAGE == "{code: Neo.ClientError.Statement.TypeError} {message: Neo4j only supports a subset of Cypher types for storage as singleton or array properties. Please refer to section cypher/syntax/values of the manual for more details.}"

CypherMultipleTypesMultiValueException == "Values of a multivalued property must have the same datatype."

\* what Object() returns, and the TypeError of calling what is no function
EmptyObject == "{}"
NotAFunctionError == "TypeError: customException is not a function"

\* NEO4J_DRIVER_DICT_MESSAGE[errorMessage]: the own key of the object
\* literal, or a property inherited from Object.prototype
DictMessageLookup(errorMessage) ==
  IF errorMessage = NEO4J_DRIVER_MULTIPLE_TYPE_ERROR_MESSAGE THEN "factory"
  ELSE IF errorMessage = "constructor" THEN "Object"
  ELSE IF errorMessage = "__proto__" THEN "Object.prototype"
  ELSE "undefined"

\* the value returned, or the error thrown by the call of customException
handle_neo4j_driver_exception(ex) ==
  LET errorMessage == IF ex = "" THEN "Error" ELSE ex
      customException == DictMessageLookup(errorMessage)
  IN  IF customException = "undefined" THEN ex
      ELSE IF customException = "factory" THEN CypherMultipleTypesMultiValueException
      ELSE IF customException = "Object" THEN EmptyObject
      ELSE NotAFunctionError

\* __query_database (lines 457-483): ex is <<>> when driver.executeQuery
\* resolves, and holds the error when it rejects; a failing query leaves the
\* database as it was
QueryDatabase(r, query, params, buffer_key, ex) ==
  IF ~r.store.session THEN Throw(r, SessionError)
  ELSE IF ex # <<>>
  THEN [r EXCEPT !.sent = Append(@, Dispatch(query, params, FALSE, buffer_key)),
                 !.error = handle_neo4j_driver_exception(ex[1])]
  ELSE [r EXCEPT !.sent = Append(@, Dispatch(query, params, TRUE, buffer_key)),
                 !.db = ExecuteQuery(@, query, params)]

\* __query_database, the driver rejecting the failAt-th query of the call
__query_database(r, query, params, buffer_key, failAt) ==
  QueryDatabase(r, query, params, buffer_key,
                IF Len(r.sent) + 1 = failAt THEN <<DriverError>> ELSE <<>>)

\* the loop of __flushNodeBuffer from the i-th composer on
RECURSIVE FlushNodesFrom(_, _, _)
FlushNodesFrom(r, i, failAt) ==
  IF i > Len(r.store.node_buffer) THEN [r EXCEPT !.store.node_buffer_size = 0]
  ELSE
    LET cur == r.store.node_buffer[i].composer
    IN  IF ~NodeIsRedundant(cur) /\ Len(cur.query_params) > 0
        THEN LET q == __query_database(r, NodeWriteQuery(cur), cur.query_params,
                                       r.store.node_buffer[i].key, failAt)
             IN  IF q.error # "none" THEN q
                 ELSE FlushNodesFrom(
                        [q EXCEPT !.store.node_buffer[i].composer =
                                     NodeEmptyQueryParams(@)],
                        i + 1, failAt)
        ELSE FlushNodesFrom(r, i + 1, failAt)

__flushNodeBuffer(r, failAt) ==
  IF ~r.store.session THEN Throw(r, SessionError)
  ELSE FlushNodesFrom(r, 1, failAt)

RECURSIVE FlushRelsFrom(_, _, _)
FlushRelsFrom(r, i, failAt) ==
  IF i > Len(r.store.rel_buffer) THEN [r EXCEPT !.store.rel_buffer_size = 0]
  ELSE
    LET cur == r.store.rel_buffer[i].composer
    IN  IF ~RelIsRedundant(cur) /\ RelWriteQueryThrows(cur)
        THEN Throw(r, NotImplementedError)
        ELSE IF ~RelIsRedundant(cur)
        THEN LET q == __query_database(r, RelWriteQuery(cur), cur.query_params,
                                       r.store.rel_buffer[i].key, failAt)
             IN  IF q.error # "none" THEN q
                 ELSE FlushRelsFrom(
                        [q EXCEPT !.store.rel_buffer[i].composer =
                                     RelEmptyQueryParams(@)],
                        i + 1, failAt)
        ELSE FlushRelsFrom(r, i + 1, failAt)

__flushRelBuffer(r, failAt) ==
  IF ~r.store.session THEN Throw(r, SessionError)
  ELSE FlushRelsFrom(r, 1, failAt)

\* a flush that writes the relationships first
FlushBufferRelsFirst(r, only_nodes, only_rels, failAt) ==
  IF ~r.store.open THEN Throw(r, NotOpenError)
  ELSE
    LET rels == IF ~only_nodes THEN __flushRelBuffer(r, failAt) ELSE r
    IN  IF rels.error # "none" THEN rels
        ELSE IF ~only_rels THEN __flushNodeBuffer(rels, failAt)
        ELSE rels

__flushBuffer(r, only_nodes, only_rels, failAt) ==
  IF ~r.store.open THEN Throw(r, NotOpenError)
  ELSE
    LET nodes == IF ~only_rels THEN __flushNodeBuffer(r, failAt) ELSE r
    IN  IF nodes.error # "none" THEN nodes
        ELSE IF ~only_nodes THEN __flushRelBuffer(nodes, failAt)
        ELSE nodes

\* a commit that leaves the open subject where it is
CommitWithoutFinalize(r, commit_nodes, commit_rels, failAt) ==
  IF ~commit_nodes /\ ~commit_rels
  THEN __flushBuffer(r, FALSE, FALSE, failAt)
  ELSE __flushBuffer(r, commit_nodes, commit_rels, failAt)

commit(r, commit_nodes, commit_rels, failAt) ==
  LET stored ==
        IF r.store.current_subject # <<>>
        THEN [r EXCEPT !.store =
                [__store_current_subject(r.store) EXCEPT !.current_subject = <<>>]]
        ELSE r
  IN  IF ~commit_nodes /\ ~commit_rels
      THEN __flushBuffer(stored, FALSE, FALSE, failAt)
      ELSE __flushBuffer(stored, commit_nodes, commit_rels, failAt)

\* the one element of a singleton: Only({e(x) : x \in {v}}) is e(v), with
\* v computed once
Only(S) == CHOOSE x \in S : TRUE

\* a try block that flushes both sides when either threshold is reached
AddFlushJointly(r, failAt) ==
  IF r.store.batching THEN
    IF \/ r.store.node_buffer_size >= r.store.buffer_max_size
       \/ r.store.rel_buffer_size >= r.store.buffer_max_size
    THEN commit(r, FALSE, FALSE, failAt)
    ELSE r
  ELSE commit(r, FALSE, FALSE, failAt)

\* a try block that checks the relationship counter only
AddFlushRelsOnly(r, failAt) ==
  IF r.store.batching THEN
    IF r.store.rel_buffer_size >= r.store.buffer_max_size
    THEN commit(r, FALSE, TRUE, failAt) ELSE r
  ELSE commit(r, FALSE, FALSE, failAt)

\* the try block of add (lines 147-157)
AddFlush(r, failAt) ==
  IF r.store.batching THEN
    Only({ IF nodes.error # "none" THEN nodes
           ELSE IF nodes.store.rel_buffer_size >= nodes.store.buffer_max_size
           THEN commit(nodes, FALSE, TRUE, failAt)
           ELSE nodes :
             nodes \in {IF r.store.node_buffer_size >= r.store.buffer_max_size
                        THEN commit(r, TRUE, FALSE, failAt) ELSE r} })
  ELSE commit(r, FALSE, FALSE, failAt)

\* the catch block of add (lines 158-161)
AddCatch(flushed) ==
  IF flushed.error # "none"
  THEN [flushed EXCEPT !.store = __close_on_error(@)]
  ELSE flushed

\* an add without the check of lines 127-129
AddWithoutOpenCheck(r, quad, failAt) ==
  IF quad.subject.termType # "NamedNode" THEN r
  ELSE
    LET checked == __check_current_subject(r.store, quad.subject)
        parsed == parse_triple(checked.current_subject[1], quad, checked.mappings)
    IN  IF parsed.throws
        THEN Throw([r EXCEPT !.store = checked], ShortenStrictError)
        ELSE Only({ AddCatch(AddFlush(fed, failAt)) :
                      fed \in {[r EXCEPT !.store =
                                  [checked EXCEPT !.current_subject = <<parsed.triple>>,
                                                  !.total_triples = @ + 1]]} })

add(r, quad, failAt) ==
  IF ~r.store.open THEN Throw(r, NotOpenError)
  ELSE IF quad.subject.termType # "NamedNode" THEN r
  ELSE
    LET checked == __check_current_subject(r.store, quad.subject)
        parsed == parse_triple(checked.current_subject[1], quad, checked.mappings)
    IN  IF parsed.throws
        THEN Throw([r EXCEPT !.store = checked], ShortenStrictError)
        ELSE Only({ AddCatch(AddFlush(fed, failAt)) :
                      fed \in {[r EXCEPT !.store =
                                  [checked EXCEPT !.current_subject = <<parsed.triple>>,
                                                  !.total_triples = @ + 1]]} })

RemoveError == "This is a streamer so it doesn't preserve the state, there is no removal feature."

\* a remove that only refuses a store that is not open
RemoveWhenClosed(r, quad) ==
  IF ~r.store.open THEN Throw(r, NotOpenError)
  ELSE [r EXCEPT !.store = __close_on_error(@)]

\* remove (lines 192-196)
remove(r, quad) == Throw(r, RemoveError)

\* driver.close(): the driver the store holds is closed
DriverClose(r) ==
  [r EXCEPT !.store.driver = <<[@[1] EXCEPT !.closed = TRUE]>>,
            !.released = Append(@, r.store.driver[1])]

\* an end of close that also discards what the store has pending
CloseSessionDiscards(r) ==
  IF r.error # "none" THEN r
  ELSE [(IF r.store.driver # NoDriver /\ r.store.driver_owned
         THEN [DriverClose(r) EXCEPT !.store.driver = NoDriver] ELSE r) EXCEPT
          !.store.session = FALSE,
          !.store.open = FALSE,
          !.store.total_triples = 0,
          !.store.current_subject = <<>>,
          !.store.node_buffer = EmptyAllNodes(@),
          !.store.rel_buffer = EmptyAllRels(@),
          !.store.node_buffer_size = 0,
          !.store.rel_buffer_size = 0]

\* an end of close that closes whatever driver the store holds
CloseSessionAnyDriver(r) ==
  IF r.error # "none" THEN r
  ELSE [(IF r.store.driver # NoDriver THEN DriverClose(r) ELSE r) EXCEPT
          !.store.session = FALSE,
          !.store.open = FALSE,
          !.store.total_triples = 0]

\* the end of close (lines 88-98): the session closed, the driver closed
\* and dropped when the store created it, the store not open
CloseSession(r) ==
  IF r.error # "none" THEN r
  ELSE [(IF r.store.driver # NoDriver /\ r.store.driver_owned
         THEN [DriverClose(r) EXCEPT !.store.driver = NoDriver] ELSE r) EXCEPT
          !.store.session = FALSE,
          !.store.open = FALSE,
          !.store.total_triples = 0]

\* a close that releases the session and the driver although a commit threw
CloseInFinally(r, commit_pending_transaction, failAt) ==
  IF ~commit_pending_transaction THEN CloseSession(r)
  ELSE Only({ [CloseSession([flushed EXCEPT !.error = "none"]) EXCEPT !.error = flushed.error] :
                flushed \in {Only({ IF nodes.error = "none"
                                     THEN commit(nodes, FALSE, TRUE, failAt) ELSE nodes :
                                       nodes \in {commit(r, TRUE, FALSE, failAt)} })} })

close(r, commit_pending_transaction, failAt) ==
  IF ~commit_pending_transaction THEN CloseSession(r)
  ELSE Only({ CloseSession(IF nodes.error = "none"
                           THEN commit(nodes, FALSE, TRUE, failAt) ELSE nodes) :
                nodes \in {commit(r, TRUE, FALSE, failAt)} })

\* __get_driver: the driver is created from the credentials when there is none
__get_driver(store) ==
  IF store.driver = NoDriver THEN [store EXCEPT !.driver = <<Driver("store")>>]
  ELSE store

SHOW_CONSTRAINTS == "SHOW CONSTRAINTS"
CREATE_CONSTRAINT == "CREATE CONSTRAINT"

\* driver.executeQuery of __constraint_check: the statement reaches the
\* driver; answer is what the introspection statement returns
Issue(r, statement, ok, answer) ==
  [r EXCEPT !.schema = Append(@, [statement |-> statement, ok |-> ok, answer |-> answer])]

Answer(found) == IF found THEN "found" ELSE "absent"

\* a constraint check that lets the failure of the create statement out
ConstraintCheckCreateThrows(r, create, found, failAt) ==
  IF failAt = 1 THEN Throw(Issue(r, SHOW_CONSTRAINTS, FALSE, "none"), DriverError)
  ELSE IF ~found /\ create
  THEN IF failAt = 2
       THEN Throw(Issue(Issue(r, SHOW_CONSTRAINTS, TRUE, Answer(found)),
                        CREATE_CONSTRAINT, FALSE, "none"),
                  DriverError)
       ELSE Issue(Issue(r, SHOW_CONSTRAINTS, TRUE, Answer(found)),
                  CREATE_CONSTRAINT, TRUE, "none")
  ELSE Issue(r, SHOW_CONSTRAINTS, TRUE, Answer(found))

\* __constraint_check (lines 248-285).  found is the answer of the
\* introspection statement; failAt is the statement the driver fails, 0 for
\* none.  The failure of the create statement is caught.
__constraint_check(r, create, found, failAt) ==
  IF failAt = 1 THEN Throw(Issue(r, SHOW_CONSTRAINTS, FALSE, "none"), DriverError)
  ELSE IF ~found /\ create
  THEN Issue(Issue(r, SHOW_CONSTRAINTS, TRUE, Answer(found)),
             CREATE_CONSTRAINT, failAt # 2, "none")
  ELSE Issue(r, SHOW_CONSTRAINTS, TRUE, Answer(found))

\* __create_session (lines 231-246): the driver is there, the session is made
__create_session(r) ==
  [r EXCEPT !.store = [__get_driver(r.store) EXCEPT !.session = TRUE]]

\* open (lines 72-76): __create_session, __constraint_check, __set_open(true)
open(r, create, found, failAt) ==
  Only({ IF checked.error # "none" THEN checked
         ELSE [checked EXCEPT !.store.open = TRUE] :
           checked \in {__constraint_check(__create_session(r), create, found, failAt)} })

(***************************************************************************)
(* The inputs of the model: terms, quads and configurations.               *)
(***************************************************************************)
SubjectA == NamedNode(<<"ex", "/", "a">>, 1)
SubjectB == NamedNode(<<"ex", "/", "b">>, 1)
Blank == BlankNode("b1", 1)
TypePredicate == NamedNode(RDF_TYPE, 1)
NamePredicate == NamedNode(<<"ex", "/", "name">>, 1)
\* a predicate and a class whose namespace is in no prefix table
UnknownPredicate == NamedNode(<<"unk", "/", "age">>, 1)
UnknownClass == NamedNode(<<"unk", "/", "Thing">>, 1)
PersonClass == NamedNode(<<"ex", "/", "Person">>, 1)
LiteralA == LiteralTerm(<<"a">>, XSD_STRING)
Literal7 == LiteralTerm(<<"7">>, XSD_STRING)

QuadUniverse ==
  { Quad(SubjectA, TypePredicate, PersonClass),
    Quad(SubjectA, NamePredicate, LiteralA),
    Quad(SubjectA, NamePredicate, Literal7),
    Quad(SubjectA, NamePredicate, SubjectB),
    Quad(SubjectA, UnknownPredicate, LiteralA),
    Quad(SubjectA, UnknownPredicate, Blank),
    Quad(SubjectB, TypePredicate, PersonClass),
    Quad(SubjectB, TypePredicate, UnknownClass),
    Quad(SubjectB, NamePredicate, LiteralA),
    Quad(Blank, NamePredicate, LiteralA) }

\* custom_mappings of the configuration: ex:name is mapped to "label"
CustomMappings == (NamePredicate.value :> <<"label">>)

\* complete credentials
Credentials == <<[uri |-> "bolt", database |-> "neo4j", user |-> "neo4j", pwd |-> "pwd"]>>

Config(batching, batch_size, vocab, multival, multival_names) ==
  [auth_data |-> Credentials,
   batching |-> batching,
   batch_size |-> batch_size,
   custom_mappings |-> CustomMappings,
   handle_vocab_uri_strategy |-> vocab,
   handle_multival_strategy |-> multival,
   multival_props_names |-> multival_names,
   prefixes |-> DEFAULT_PREFIXES]

\* unbatched stores ignore batch_size, OVERWRITE ignores the allow-list
Configs ==
  { Config(b, n, v, m, l) :
      b \in BOOLEAN, n \in 1..MaxBatch, v \in HANDLE_VOCAB_URI_STRATEGY,
      m \in HANDLE_MULTIVAL_STRATEGY,
      l \in {<<>>, <<NamePredicate.value>>} }

UsedConfigs ==
  { c \in Configs :
      /\ (~c.batching => c.batch_size = 1)
      /\ (c.handle_multival_strategy = OVERWRITE => c.multival_props_names = <<>>) }

(***************************************************************************)
(* What a quad states about its subject, as the configuration reads it: a  *)
(* label, a single-valued or multi-valued property value, or a             *)
(* relationship.  The bookkeeping below is kept beside the program, from   *)
(* the calls made and the queries handed to the driver.                    *)
(***************************************************************************)
Fact(kind, uri, name, value) == [kind |-> kind, uri |-> uri, name |-> name, value |-> value]

Resolve(config, uri) ==
  handle_vocab_uri(config.custom_mappings, uri, ReversedPrefixes(config.prefixes),
                   config.handle_vocab_uri_strategy)

IsMultivalued(config, predicate) ==
  /\ config.handle_multival_strategy = ARRAY
  /\ \/ Includes(config.multival_props_names, predicate)
     \/ config.multival_props_names = <<>>

\* the URI that add resolves for the quad: none for a quad it skips
ResolvedUri(quad) ==
  IF quad.subject.termType # "NamedNode" \/ quad.predicate.termType # "NamedNode"
    THEN <<>>
  ELSE IF quad.object.termType = "Literal" THEN <<quad.predicate.value>>
  ELSE IF quad.object.termType # "NamedNode" THEN <<>>
  ELSE IF quad.predicate.value = RDF_TYPE THEN <<quad.object.value>>
  ELSE <<quad.predicate.value>>

QuadFacts(config, quad) ==
  IF ResolvedUri(quad) = <<>> \/ Resolve(config, ResolvedUri(quad)[1]).throws THEN {}
  ELSE
    LET name == Resolve(config, ResolvedUri(quad)[1]).value
        uri == quad.subject.value
    IN  IF quad.object.termType = "Literal"
        THEN {Fact(IF IsMultivalued(config, quad.predicate.value)
                   THEN "multi" ELSE "single",
                   uri, name,
                   literalToValue(ConvertedLiteral(ConvertValue(quad.object),
                                                   quad.object.datatype)))}
        ELSE IF quad.predicate.value = RDF_TYPE
        THEN {Fact("label", uri, name, Str(<<>>))}
        ELSE {Fact("rel", uri, name, Str(quad.object.value))}

\* what one row of a node query writes
NodeRowFacts(query, param) ==
  LET uri == param[URI_KEY].v
  IN  {Fact("label", uri, l, Str(<<>>)) : l \in Range(query.labels)}
      \cup {Fact("single", uri, p, param[p]) : p \in query.single \cap DOMAIN param}
      \cup UNION {{Fact("multi", uri, p, param[p].v[i]) : i \in 1..Len(param[p].v)} :
                    p \in query.append \cap DOMAIN param}

EntryFacts(entry) ==
  IF ~entry.ok THEN {}
  ELSE IF entry.query.kind = "node"
  THEN UNION {NodeRowFacts(entry.query, entry.params[i]) : i \in 1..Len(entry.params)}
  ELSE {Fact("rel", entry.params[i].from, entry.query.rel_type, Str(entry.params[i].to)) :
          i \in 1..Len(entry.params)}

SentFacts(sent) == UNION {EntryFacts(sent[i]) : i \in 1..Len(sent)}

\* the uri of every row of the node queries of a call, in dispatch order
NodeRowUris(sent) ==
  ConcatAll([i \in 1..Len(sent) |->
               IF sent[i].query.kind = "node"
               THEN [j \in 1..Len(sent[i].params) |-> sent[i].params[j][URI_KEY].v]
               ELSE <<>>])

\* the current subject run of the stream of accepted triples: its facts,
\* a later value of a single-valued property replacing the earlier one
NoRun == [uri |-> <<>>, facts |-> {}]

RunAdd(run, quad, facts) ==
  LET replaced == {f \in run.facts :
                     \E g \in facts : g.kind = "single" /\ f.kind = "single"
                                      /\ f.name = g.name}
  IN  IF run.uri = quad.subject.value
      THEN [run EXCEPT !.facts = (@ \ replaced) \cup facts]
      ELSE [uri |-> quad.subject.value, facts |-> facts]

(***************************************************************************)
(* The state: the store object, the database behind the driver, the record *)
(* of the last call (its arguments, the error it threw, the queries it     *)
(* handed to the driver), and the bookkeeping of the history:              *)
(*   calls       every call so far, summarised                             *)
(*   offered     the facts of every quad passed to add on an open store    *)
(*   run, owed   the facts of the current run of the stream of accepted    *)
(*               triples, and those of the earlier runs                    *)
(*   dispatched  the facts written by the queries that succeeded           *)
(*   tainted     the facts a subject had accumulated in its run when add   *)
(*               raised ShortenStrictException for it                      *)
(*   twin        a second store with a database of its own, and the last   *)
(*               quad it was fed: two imports are compared on it           *)
(*   unit        a call of a function or method that is called on its own: *)
(*               its arguments and, once it has returned, its result       *)
(*   loop        the calls that are suspended at an await of the driver,   *)
(*               with the rows buffered and the rows written so far        *)
(***************************************************************************)
VARIABLES store, db, last, ops, calls, offered, run, owed, dispatched, tainted, twin, unit,
          loop

vars == <<store, db, last, ops, calls, offered, run, owed, dispatched, tainted, twin, unit, loop>>

NoUnit == [op |-> "none", returned |-> FALSE]

\* no call suspended, no row buffered or written
NoLoop == [tasks |-> <<>>, buffered |-> <<>>, written |-> <<>>, failed |-> FALSE]

LastCall(op, quad, flags, r) ==
  [op |-> op, quad |-> quad, flags |-> flags, wasOpen |-> store.open,
   error |-> r.error, sent |-> r.sent, schema |-> r.schema, released |-> r.released]

CallSummary(call) ==
  [op |-> call.op,
   uri |-> IF call.op = "add" /\ call.wasOpen
              /\ call.quad[1].subject.termType = "NamedNode"
           THEN call.quad[1].subject.value ELSE <<>>,
   ok |-> call.error = "none",
   flushed |-> Len(call.sent) > 0]

Twin(config) ==
  [store |-> Neo4jStore(config, NoDriver), db |-> EmptyDb, quad |-> <<>>, repeats |-> 0]

\* no call made yet on the store, the database empty
Started ==
  /\ db = EmptyDb
  /\ last = LastCall("new", <<>>, <<>>, Call(store, db))
  /\ ops = 0
  /\ calls = <<>>
  /\ offered = {}
  /\ run = NoRun
  /\ owed = {}
  /\ dispatched = {}
  /\ tainted = {}
  /\ loop = NoLoop

\* the state after new Neo4jStore(config), for the configurations given
Constructed(configs) ==
  /\ store \in {Neo4jStore(c, NoDriver) : c \in configs}
  /\ Started
  /\ unit = NoUnit

Init ==
  /\ Constructed(UsedConfigs)
  /\ twin = Twin(store.config)

\* the effect of a call on the store, the database and the bookkeeping
Returns(call, r) ==
  /\ store' = r.store
  /\ db' = r.db
  /\ last' = call
  /\ calls' = Append(calls, CallSummary(call))
  /\ dispatched' = dispatched \cup SentFacts(r.sent)
  /\ UNCHANGED <<unit, loop>>

\* open(create) on a store that is not open; a call that fails is counted
OpenCall(create, found, failAt) ==
  \E r \in {open(Call(store, db), create, found, failAt)} :
      /\ ~store.open
      /\ failAt > 0 => \E i \in 1..Len(r.schema) : ~r.schema[i].ok
      /\ r.error # "none" => ops < MaxOps
      /\ Returns(LastCall("open", <<>>, <<create>>, r), r)
      /\ ops' = IF r.error # "none" THEN ops + 1 ELSE ops
      /\ UNCHANGED <<offered, run, owed, tainted>>

AddCall(quad, failAt) ==
  \E r \in {add(Call(store, db), quad, failAt)},
     facts \in {QuadFacts(store.config, quad)},
     named \in {quad.subject.termType = "NamedNode"} :
      /\ failAt > 0 => r.error = DriverError
      /\ Returns(LastCall("add", <<quad>>, <<>>, r), r)
      /\ ops' = ops + 1
      /\ offered' = IF store.open THEN offered \cup facts ELSE offered
      /\ IF r.error = "none" /\ named
         THEN /\ run' = RunAdd(run, quad, facts)
              /\ owed' = IF run.uri = quad.subject.value THEN owed
                         ELSE owed \cup run.facts
         ELSE UNCHANGED <<run, owed>>
      /\ tainted' = IF r.error = ShortenStrictError /\ run.uri = quad.subject.value
                    THEN tainted \cup run.facts ELSE tainted

CommitCall(commit_nodes, commit_rels, failAt) ==
  \E r \in {commit(Call(store, db), commit_nodes, commit_rels, failAt)} :
      /\ failAt > 0 => r.error = DriverError
      /\ Returns(LastCall("commit", <<>>, <<commit_nodes, commit_rels>>, r), r)
      /\ ops' = ops + 1
      /\ UNCHANGED <<offered, run, owed, tainted>>

CloseCall(commit_pending_transaction, failAt) ==
  \E r \in {close(Call(store, db), commit_pending_transaction, failAt)} :
      /\ failAt > 0 => r.error = DriverError
      /\ Returns(LastCall("close", <<>>, <<commit_pending_transaction>>, r), r)
      /\ ops' = ops + 1
      /\ UNCHANGED <<offered, run, owed, tainted>>

RemoveCall(quad) ==
  \E r \in {remove(Call(store, db), quad)} :
      /\ Returns(LastCall("remove", <<quad>>, <<>>, r), r)
      /\ ops' = ops + 1
      /\ UNCHANGED <<offered, run, owed, tainted>>

\* add_props called on the i-th composer of the store's rel_buffer
RelAddPropsCall(i, props) ==
  \E a \in {RelAddProps(store.rel_buffer[i].composer, props)} :
    \E r \in {Throw([Call(store, db) EXCEPT !.store.rel_buffer[i].composer = a.composer],
                     a.error)} :
      /\ Returns(LastCall("add_props", <<>>, <<>>, r), r)
      /\ ops' = ops + 1
      /\ UNCHANGED <<offered, run, owed, tainted>>

(***************************************************************************)
(* Spec: one store, any call in any order, any query failing.              *)
(***************************************************************************)
\* open() on a database without the constraint, no statement failing
Open == OpenCall(TRUE, FALSE, 0) /\ UNCHANGED twin

Add(quad, failAt) == ops < MaxOps /\ AddCall(quad, failAt) /\ UNCHANGED twin

Commit(commit_nodes, commit_rels, failAt) ==
  ops < MaxOps /\ CommitCall(commit_nodes, commit_rels, failAt) /\ UNCHANGED twin

Close(commit_pending_transaction, failAt) ==
  ops < MaxOps /\ CloseCall(commit_pending_transaction, failAt) /\ UNCHANGED twin

Next ==
  \/ Open
  \/ \E quad \in QuadUniverse, failAt \in 0..MaxFail : Add(quad, failAt)
  \/ \E cn \in BOOLEAN, cr \in BOOLEAN, failAt \in 0..MaxFail : Commit(cn, cr, failAt)
  \/ \E cp \in BOOLEAN, failAt \in 0..MaxFail : Close(cp, failAt)

Spec == Init /\ [][Next]_vars

(***************************************************************************)
(* The imports of a triple stream: a store and its twin are fed the same   *)
(* quads, no query failing.  In SpecEquiv the twin is the store without    *)
(* batching, and an import ends with commit() or close(true).  In SpecIdem *)
(* the twin has the configuration of the store and is fed each quad once,  *)
(* while the store is fed the last quad a second time.                     *)
(***************************************************************************)
StreamQuads ==
  { Quad(SubjectA, TypePredicate, PersonClass),
    Quad(SubjectA, NamePredicate, LiteralA),
    Quad(SubjectA, NamePredicate, Literal7),
    Quad(SubjectA, NamePredicate, SubjectB),
    Quad(SubjectB, NamePredicate, LiteralA) }

\* batch sizes below the length of the stream, and one no stream reaches
StreamConfigs ==
  { Config(b, n, IGNORE, m, <<>>) :
      b \in BOOLEAN, n \in (1..MaxBatch) \cup {MaxStream + 1},
      m \in HANDLE_MULTIVAL_STRATEGY }

Unbatched(config) == [config EXCEPT !.batching = FALSE]

TwinCall(r, quad) ==
  [twin EXCEPT !.store = r.store, !.db = r.db,
               !.quad = IF quad = <<>> THEN @ ELSE quad]

Commits == Cardinality({i \in 1..Len(calls) : calls[i].op = "commit"})

Adds == Cardinality({i \in 1..Len(calls) : calls[i].op = "add"})

InitEquiv ==
  /\ Constructed({c \in StreamConfigs : ~c.batching => c.batch_size = 1})
  /\ twin = Twin(Unbatched(store.config))

EquivOpen ==
  /\ ops = 0
  /\ OpenCall(TRUE, FALSE, 0)
  /\ twin' = TwinCall(open(Call(twin.store, twin.db), TRUE, FALSE, 0), <<>>)

\* the store and its twin are fed the quad
FeedBoth(quad) ==
  /\ store.open /\ Adds < MaxStream
  /\ AddCall(quad, 0)
  /\ twin' = TwinCall(add(Call(twin.store, twin.db), quad, 0), <<quad>>)

EquivAdd(quad) == Commits = 0 /\ FeedBoth(quad)

EquivCommit ==
  /\ store.open /\ Commits < MaxCommits
  /\ CommitCall(FALSE, FALSE, 0)
  /\ twin' = TwinCall(commit(Call(twin.store, twin.db), FALSE, FALSE, 0), <<>>)

EquivClose ==
  /\ store.open
  /\ CloseCall(TRUE, 0)
  /\ twin' = TwinCall(close(Call(twin.store, twin.db), TRUE, 0), <<>>)

NextEquiv ==
  \/ EquivOpen
  \/ \E quad \in StreamQuads : EquivAdd(quad)
  \/ EquivCommit
  \/ EquivClose

SpecEquiv == InitEquiv /\ [][NextEquiv]_vars

\* the quads whose repetition is compared: a type statement, or a literal
\* under OVERWRITE
Repeatable(config, quad) ==
  /\ quad.predicate.value = RDF_TYPE \/ quad.object.termType = "Literal"
  /\ quad.object.termType = "Literal" => config.handle_multival_strategy = OVERWRITE

InitIdem ==
  /\ Constructed({c \in StreamConfigs :
                    /\ ~c.batching => c.batch_size = 1
                    /\ c.handle_multival_strategy = OVERWRITE})
  /\ twin = Twin(store.config)

IdemAdd(quad) ==
  /\ twin.repeats = 0
  /\ FeedBoth(quad)

\* the store is fed the last quad again, the twin is not
IdemRepeat ==
  /\ store.open /\ twin.repeats = 0 /\ twin.quad # <<>>
  /\ Repeatable(store.config, twin.quad[1])
  /\ AddCall(twin.quad[1], 0)
  /\ twin' = [twin EXCEPT !.repeats = 1]

IdemCommit ==
  /\ store.open /\ Commits < MaxCommits
  /\ CommitCall(FALSE, FALSE, 0)
  /\ twin' = TwinCall(commit(Call(twin.store, twin.db), FALSE, FALSE, 0), <<>>)

NextIdem ==
  \/ EquivOpen
  \/ \E quad \in StreamQuads : IdemAdd(quad)
  \/ IdemRepeat
  \/ IdemCommit

SpecIdem == InitIdem /\ [][NextIdem]_vars

(***************************************************************************)
(* SpecLife: the life of a store built from credentials or around a driver *)
(* of the caller: open, add, commit, close, reopen, the unsupported        *)
(* operations, and quads whose subject or predicate is no named node.      *)
(***************************************************************************)
LiteralPredicate == LiteralTerm(<<"name">>, XSD_STRING)

LifeQuads ==
  { Quad(SubjectA, NamePredicate, LiteralA),
    Quad(SubjectA, NamePredicate, SubjectB),
    Quad(SubjectB, TypePredicate, PersonClass),
    Quad(Blank, NamePredicate, LiteralA),
    Quad(SubjectA, Blank, LiteralA),
    Quad(SubjectB, LiteralPredicate, SubjectA) }

LifeConfigs ==
  { Config(TRUE, MaxBatch, SHORTEN, OVERWRITE, <<>>),
    Config(FALSE, 1, IGNORE, ARRAY, <<>>) }

\* the arguments of the constructor: credentials in the configuration, or a
\* configuration without them and a driver
Constructions ==
  { <<c, NoDriver>> : c \in LifeConfigs }
    \cup { <<[c EXCEPT !.auth_data = <<>>], SuppliedDriver>> : c \in LifeConfigs }

PropsUniverse == {{}, {"since"}}

InitLife ==
  /\ store \in { Neo4jStore(k[1], k[2]) :
                  k \in {k \in Constructions : ConstructorError(k[1], k[2]) = "none"} }
  /\ Started
  /\ unit = NoUnit
  /\ twin = Twin(store.config)

\* open(create), the constraint found or not, any statement failing
OpenWith(create, found, failAt) == OpenCall(create, found, failAt) /\ UNCHANGED twin

Remove(quad) == ops < MaxOps /\ RemoveCall(quad) /\ UNCHANGED twin

ComposerAddProps(i, props) ==
  /\ ops < MaxOps
  /\ i <= Len(store.rel_buffer)
  /\ RelAddPropsCall(i, props)
  /\ UNCHANGED twin

NextLife ==
  \/ \E create \in BOOLEAN, found \in BOOLEAN, failAt \in 0..2 :
       OpenWith(create, found, failAt)
  \/ \E quad \in LifeQuads, failAt \in 0..1 : Add(quad, failAt)
  \/ \E cn \in BOOLEAN, cr \in BOOLEAN : Commit(cn, cr, 0)
  \/ \E cp \in BOOLEAN : Close(cp, 0)
  \/ \E quad \in LifeQuads : Remove(quad)
  \/ \E i \in 1..MaxOps, props \in PropsUniverse : ComposerAddProps(i, props)

SpecLife == InitLife /\ [][NextLife]_vars

(***************************************************************************)
(* The functions and methods that are called on their own: every call      *)
(* draws its arguments from the sets below and records its result.         *)
(***************************************************************************)
\* the longest URI, in tokens
MaxUriLen == 3

Separators == {"#", "/", ":"}

UriTokens == Separators \cup {"ex", "p"}

\* the URIs: no two runs of characters are adjacent
UriUniverse ==
  { u \in UNION {[1..n -> UriTokens] : n \in 0..MaxUriLen} :
      \A i \in 1..(Len(u) - 1) : u[i] \in Separators \/ u[i + 1] \in Separators }

Namespaces == {<<"ex", "/">>, <<"ex", "#">>, <<"p", ":">>}

\* the prefix tables (prefix -> namespace), no namespace under two prefixes
PrefixTables ==
  { t \in UNION {[names -> Namespaces] : names \in SUBSET {"ex", "e2"}} :
      \A a \in DOMAIN t, b \in DOMAIN t : t[a] = t[b] => a = b }

MappedUri == <<"ex", "/", "p">>

\* the custom mappings: none, a new name, the empty name, the URI itself
MappingTables ==
  {EmptyMap, (MappedUri :> <<"Q">>), (MappedUri :> <<>>), (MappedUri :> MappedUri)}

(***************************************************************************)
(* config/Neo4jStoreConfig.ts: the prefixes, the custom mappings and the   *)
(* multivalued predicates of the configuration, and their setters.         *)
(***************************************************************************)
PrefixNotFoundException == "PrefixNotFoundException"
NamespaceAlreadyDefined == "Namespace already defined for another prefix."

\* what every object literal inherits from Object.prototype, as `${...}` prints it
ObjectPrototype == ("constructor" :> <<"function Object() { [native code] }">>)

\* key in object
In(key, object) == key \in DOMAIN object \/ key \in DOMAIN ObjectPrototype

\* object[key], for a key in the object
Get(object, key) == IF key \in DOMAIN object THEN object[key] ELSE ObjectPrototype[key]

\* { ...a, ...b }
Spread(a, b) == [k \in DOMAIN a \cup DOMAIN b |-> IF k \in DOMAIN b THEN b[k] ELSE a[k]]

\* object[key] = value
Put(object, key, value) ==
  [k \in DOMAIN object \cup {key} |-> IF k = key THEN value ELSE object[k]]

\* delete object[key]
Delete(object, key) == [k \in DOMAIN object \ {key} |-> object[k]]

get_prefixes(c) == Spread(c.default_prefixes, c.custom_prefixes)

Configured(c) == [config |-> c, error |-> "none"]
Rejected(c, error) == [config |-> c, error |-> error]

set_multival_prop_name(c, prefix_name, prop_name) ==
  LET total_prefixes == get_prefixes(c)
      predicate == Get(total_prefixes, prefix_name) \o prop_name
  IN  IF ~In(prefix_name, total_prefixes) THEN Rejected(c, PrefixNotFoundException)
      ELSE IF Includes(c.multival_props_names, predicate) THEN Configured(c)
      ELSE Configured([c EXCEPT !.multival_props_names = Append(@, predicate)])

set_custom_prefix(c, name, value) ==
  IF value \in Range(c.custom_prefixes) THEN Rejected(c, NamespaceAlreadyDefined)
  ELSE Configured([c EXCEPT !.custom_prefixes = Put(@, name, value)])

set_custom_mapping(c, prefix_name, to_replace, new_value) ==
  LET total_prefixes == get_prefixes(c)
      key == Get(total_prefixes, prefix_name) \o to_replace
  IN  IF ~In(prefix_name, total_prefixes) THEN Rejected(c, PrefixNotFoundException)
      ELSE Configured([c EXCEPT !.custom_mappings = Put(@, key, new_value)])

delete_custom_mapping(c, prefix_name, to_replace) ==
  LET all_prefixes == get_prefixes(c)
      key == Get(all_prefixes, prefix_name) \o to_replace
  IN  IF ~In(prefix_name, all_prefixes) THEN Rejected(c, PrefixNotFoundException)
      ELSE IF key \in DOMAIN c.custom_mappings
        THEN Configured([c EXCEPT !.custom_mappings = Delete(@, key)])
      ELSE Configured(c)

\* the loops of the constructor; an exception ends the construction
RECURSIVE SetCustomMappings(_, _)
SetCustomMappings(r, custom_mappings) ==
  IF custom_mappings = <<>> \/ r.error # "none" THEN r
  ELSE SetCustomMappings(set_custom_mapping(r.config, Head(custom_mappings).prefixName,
                                            Head(custom_mappings).toReplace,
                                            Head(custom_mappings).newValue),
                         Tail(custom_mappings))

RECURSIVE SetMultivalPropNames(_, _)
SetMultivalPropNames(r, multival_props_names) ==
  IF multival_props_names = <<>> \/ r.error # "none" THEN r
  ELSE SetMultivalPropNames(set_multival_prop_name(r.config, Head(multival_props_names).prefixName,
                                                   Head(multival_props_names).propName),
                            Tail(multival_props_names))

Neo4jStoreConfig(custom_mappings, custom_prefixes, multival_props_names) ==
  SetMultivalPropNames(
    SetCustomMappings(Configured([default_prefixes |-> DEFAULT_PREFIXES,
                                  custom_prefixes |-> custom_prefixes,
                                  custom_mappings |-> EmptyMap,
                                  multival_props_names |-> <<>>]),
                      custom_mappings),
    multival_props_names)

\* a call about to be made
UnitCall(op, args) == [op |-> op, args |-> args, returned |-> FALSE]

\* auth_data: null, or any of the required fields, each empty or not
AuthValues == {"", "v"}

AuthUniverse ==
  {<<>>} \cup { <<a>> : a \in UNION { [f -> AuthValues] :
                                        f \in SUBSET Range(NEO4J_AUTH_REQUIRED_FIELDS) } }

\* lexical forms: digit strings, words, and forms of dates and times
DigitStrings == UNION {[1..n -> {"0", "3", "7"}] : n \in 1..2}

DateForm == <<"2025", "-", "01", "-", "31">>
DateTimeForm == <<"2025", "-", "01", "-", "31", "T", "00", ":", "00", ":", "00", "Z">>
TimeForm == <<"14", ":", "30", ":", "00">>

LexicalForms ==
  DigitStrings
    \cup {<<"true">>, <<"false">>, <<"Donna", " ", "Fales">>, <<>>,
          DateForm, DateTimeForm, TimeForm, <<"not", "-", "a", "-", "date">>}

Datatypes ==
  {NoDatatype, XSD_STRING, XSD_INTEGER, XSD_INT, XSD_BOOLEAN, XSD_DATE, XSD_DATETIME, XSD_TIME}

LiteralUniverse == {LiteralTerm(l, d) : l \in LexicalForms, d \in Datatypes}

\* the row of a subject to which one quad with the literal was fed
LiteralRow(config, predicate, literal) ==
  extract_params(
    parse_triple(__create_current_subject(Neo4jStore(config, NoDriver), SubjectA),
                 Quad(SubjectA, predicate, literal),
                 config.custom_mappings).triple)

\* a predicate whose local part is the key of the subject's URI in a row
UriPredicate == NamedNode(<<"ex", "/", "uri">>, 1)

\* the errors driver.executeQuery rejects with
DriverExceptions ==
  {NEO4J_DRIVER_MULTIPLE_TYPE_ERROR_MESSAGE, DriverError, "", "constructor", "__proto__"}

\* prefix names: a default one, a custom one, an unknown one, and one that
\* names a property of Object.prototype
PrefixNames == {"ex", "my", "zz", "constructor"}

MyNamespace == <<"my", "/">>

CustomPrefixTables == {EmptyMap, ("my" :> MyNamespace)}

CustomMappingLists ==
  {<<>>} \cup { <<[prefixName |-> p, toReplace |-> <<"name">>, newValue |-> <<"label">>]>> :
                  p \in {"ex", "zz"} }

MultivalPropNameLists ==
  { SubSeq(<<[prefixName |-> "ex", propName |-> <<"name">>],
             [prefixName |-> "ex", propName |-> <<"name">>]>>, 1, n) : n \in 0..2 }

ConstructorArgs ==
  { [custom_mappings |-> m, custom_prefixes |-> t, multival_props_names |-> l] :
      m \in CustomMappingLists, t \in CustomPrefixTables, l \in MultivalPropNameLists }

Construct(a) == Neo4jStoreConfig(a.custom_mappings, a.custom_prefixes, a.multival_props_names)

\* the configurations that exist
StoreConfigs == { Construct(a).config : a \in {b \in ConstructorArgs : Construct(b).error = "none"} }

ConfigCalls ==
  { UnitCall("Neo4jStoreConfig", a) : a \in ConstructorArgs }
    \cup
  { UnitCall(op, [config |-> c, prefix_name |-> p, local |-> l, new_value |-> <<"Q">>]) :
      op \in {"set_custom_mapping", "delete_custom_mapping", "set_multival_prop_name"},
      c \in StoreConfigs, p \in PrefixNames, l \in {<<"name">>, <<"age">>} }
    \cup
  { UnitCall("set_custom_prefix", [config |-> c, name |-> n, value |-> v]) :
      c \in StoreConfigs, n \in {"my", "m2"},
      v \in {MyNamespace, <<"m2", "/">>, DEFAULT_PREFIXES["ex"]} }

\* a second class
AgentClass == NamedNode(<<"ex", "/", "Agent">>, 1)

\* the run of a subject: no type, one type, or two types in either order
TypeRuns(subject) ==
  { <<Quad(subject, NamePredicate, LiteralA)>>,
    <<Quad(subject, TypePredicate, PersonClass)>>,
    <<Quad(subject, TypePredicate, AgentClass)>>,
    <<Quad(subject, TypePredicate, PersonClass), Quad(subject, TypePredicate, AgentClass)>>,
    <<Quad(subject, TypePredicate, AgentClass), Quad(subject, TypePredicate, PersonClass)>> }

ImportConfig == Config(TRUE, MaxBatch, IGNORE, OVERWRITE, <<>>)

RECURSIVE AddAll(_, _)
AddAll(r, quads) ==
  IF quads = <<>> \/ r.error # "none" THEN r
  ELSE AddAll(add(r, Head(quads), 0), Tail(quads))

\* open, one add for each quad, commit
Import(config, quads) ==
  commit(AddAll(open(Call(Neo4jStore(config, NoDriver), EmptyDb), TRUE, FALSE, 0), quads),
         FALSE, FALSE, 0)

ImportCalls ==
  { UnitCall("import", [config |-> ImportConfig, first |-> a, second |-> b]) :
      a \in TypeRuns(SubjectA), b \in TypeRuns(SubjectB) }

\* the term objects of ex:b: two objects with the same URI
ObjectsOfB == {NamedNode(SubjectB.value, id) : id \in 1..2}

\* one or two relationship quads of ex:a towards ex:b
RelRuns ==
  { <<Quad(SubjectA, NamePredicate, o)>> : o \in ObjectsOfB }
    \cup { <<Quad(SubjectA, NamePredicate, o1), Quad(SubjectA, NamePredicate, o2)>> :
             o1 \in ObjectsOfB, o2 \in ObjectsOfB }

\* a second property, in a namespace of the prefixes
AgePredicate == NamedNode(<<"ex", "/", "age">>, 1)

\* nothing, or a run of ex:b and then ex:a again
LaterRuns ==
  {<<>>} \cup { <<Quad(SubjectB, NamePredicate, LiteralA), Quad(SubjectA, NamePredicate, o)>> :
                  o \in ObjectsOfB }

\* a threshold that no stream below reaches
FeedConfig == Config(TRUE, MaxBatch + MaxBatch, IGNORE, OVERWRITE, <<>>)

\* the streams end with a quad of ex:b, which finalizes the run of ex:a
\* streams of literal quads in which a subject may come back
ReturningStreams ==
  [1..MaxOps -> { Quad(subject, p, LiteralA) :
                    subject \in {SubjectA, SubjectB}, p \in {NamePredicate, AgePredicate} }]

FeedCalls ==
  { UnitCall("feed", [config |-> FeedConfig,
                      quads |-> a \o l \o <<Quad(SubjectB, NamePredicate, LiteralA)>>]) :
      a \in RelRuns, l \in LaterRuns }
    \cup { UnitCall("feed", [config |-> FeedConfig, quads |-> q]) : q \in ReturningStreams }

\* allow-lists: empty, one of the two predicates, a predicate that is not used
AllowLists == {<<>>, <<NamePredicate.value>>, <<UriPredicate.value>>}

\* one to three literal quads of a subject, over two predicates and two values
LiteralQuads ==
  { Quad(SubjectA, p, l) : p \in {NamePredicate, AgePredicate}, l \in {LiteralA, Literal7} }

LiteralRuns == UNION { [1..n -> LiteralQuads] : n \in 1..MaxOps }

RECURSIVE ParseAll(_, _, _)
ParseAll(t, quads, mappings) ==
  IF quads = <<>> THEN t
  ELSE ParseAll(parse_triple(t, Head(quads), mappings).triple, Tail(quads), mappings)

\* the accumulator of a subject after the quads of its run
Accumulated(config, quads) ==
  ParseAll(__create_current_subject(Neo4jStore(config, NoDriver), quads[1].subject),
           quads, config.custom_mappings)

(***************************************************************************)
(* The timestamps of a relationship.  The constructor of                   *)
(* RelationshipQueryComposer takes the names of the two timestamp fields,  *)
(* each <<>> when the argument is omitted; write_query sets both fields to *)
(* datetime() ON CREATE and the update field ON MATCH.  The edges of the   *)
(* database are a function from (type, from, to) to the properties of the  *)
(* edge; now is the value of datetime() in the statement.                  *)
(***************************************************************************)
DefaultCreatedAtField == "_createdAt"
DefaultUpdatedAtField == "_updatedAt"

\* the constructor (lines 15-25): the default parameter values
TimestampFields(createdAtField, updatedAtField) ==
  [createdAtField |-> IF createdAtField = <<>> THEN DefaultCreatedAtField
                      ELSE createdAtField[1],
   updatedAtField |-> IF updatedAtField = <<>> THEN DefaultUpdatedAtField
                      ELSE updatedAtField[1]]

\* write_query (lines 57-63): the fields of ON CREATE SET and of ON MATCH SET
OnCreateSet(c) == {c.createdAtField, c.updatedAtField}
OnMatchSet(c) == {c.updatedAtField}

\* a MERGE that stamps the fields of ON CREATE SET when it matches, too
MergeStampsAll(edges, c, rel_type, param, now) ==
  LET edge == <<rel_type, param.from, param.to>>
  IN  (edge :> [f \in OnCreateSet(c) |-> now]) @@ edges

\* MERGE (from)-[r:rel_type]->(to) ON CREATE SET ... ON MATCH SET ... of a row
MergeRelationship(edges, c, rel_type, param, now) ==
  LET edge == <<rel_type, param.from, param.to>>
  IN  IF edge \in DOMAIN edges
      THEN (edge :> ([f \in OnMatchSet(c) |-> now] @@ edges[edge])) @@ edges
      ELSE (edge :> [f \in OnCreateSet(c) |-> now]) @@ edges

\* UNWIND $params: the rows of one statement, all at the same datetime()
RECURSIVE MergeRows(_, _, _, _, _)
MergeRows(edges, c, rel_type, params, now) ==
  IF params = <<>> THEN edges
  ELSE MergeRows(MergeRelationship(edges, c, rel_type, Head(params), now),
                 c, rel_type, Tail(params), now)

\* the edges after each of the flushes, the first flush on an empty database
RECURSIVE MergeFlushes(_, _, _, _)
MergeFlushes(edges, c, rel_type, flushes) ==
  IF flushes = <<>> THEN <<>>
  ELSE LET merged == MergeRows(edges, c, rel_type, Head(flushes).params, Head(flushes).now)
       IN  <<merged>> \o MergeFlushes(merged, c, rel_type, Tail(flushes))

MaxClock == 3

RelParams ==
  LET ab == [from |-> SubjectA.value, to |-> SubjectB.value]
      ba == [from |-> SubjectB.value, to |-> SubjectA.value]
  IN  {<<ab>>, <<ba>>, <<ab, ba>>, <<ab, ab>>}

\* one to three flushes at times that do not decrease
FlushRuns ==
  { f \in UNION { [1..n -> [now : 1..MaxClock, params : RelParams]] : n \in 1..MaxOps } :
      \A i \in 1..(Len(f) - 1) : f[i].now <= f[i + 1].now }

MergeCalls ==
  { UnitCall("merge", [createdAtField |-> a, updatedAtField |-> b, flushes |-> f]) :
      a \in {<<>>, <<"since">>}, b \in {<<>>, <<"seen">>}, f \in FlushRuns }

\* quads of a subject over every kind of predicate and of object
KindQuads ==
  { Quad(SubjectA, p, o) :
      p \in {TypePredicate, NamePredicate, UnknownPredicate, Blank},
      o \in {LiteralA, PersonClass, UnknownClass, SubjectB, Blank} }

\* parse_triple of a quad on the accumulator that earlier quads have filled
ParseOne(config, earlier, quad) ==
  LET before == ParseAll(__create_current_subject(Neo4jStore(config, NoDriver), quad.subject),
                         earlier, config.custom_mappings)
  IN  [before |-> before, after |-> parse_triple(before, quad, config.custom_mappings)]

KindCalls ==
  { UnitCall("parse_one", [config |-> Config(TRUE, 1, v, m, <<>>), earlier |-> e, quad |-> q]) :
      v \in HANDLE_VOCAB_URI_STRATEGY, m \in HANDLE_MULTIVAL_STRATEGY,
      e \in {<<>>} \cup {<<k>> : k \in KindQuads}, q \in KindQuads }

ParseCalls ==
  { UnitCall("parse_triple", [config |-> Config(TRUE, 1, IGNORE, m, l), quads |-> q]) :
      m \in HANDLE_MULTIVAL_STRATEGY, l \in AllowLists, q \in LiteralRuns }

UnitCalls ==
  ConfigCalls
    \cup
  ParseCalls
    \cup
  KindCalls
    \cup
  MergeCalls
    \cup
  FeedCalls
    \cup
  ImportCalls
    \cup
  { UnitCall("__query_database", [ex |-> x]) :
      x \in {<<>>} \cup {<<e>> : e \in DriverExceptions} }
    \cup
  { UnitCall("extract_params",
             [config |-> Config(TRUE, 1, IGNORE, m, <<>>), predicate |-> p, literal |-> l]) :
      m \in HANDLE_MULTIVAL_STRATEGY, p \in {NamePredicate, UriPredicate},
      l \in LiteralUniverse }
    \cup
  { UnitCall("handle_vocab_uri",
             [mappings |-> m, predicate |-> u,
              prefixes |-> ReversedPrefixes(t), strategy |-> s]) :
      m \in MappingTables, u \in UriUniverse, t \in PrefixTables,
      s \in HANDLE_VOCAB_URI_STRATEGY }
    \cup
  { UnitCall("new",
             [config |-> [Config(TRUE, 1, SHORTEN, OVERWRITE, <<>>) EXCEPT !.auth_data = a],
              neo4j_driver |-> d]) :
      a \in AuthUniverse, d \in {NoDriver, SuppliedDriver} }

UnitReturns(result) ==
  /\ ~unit.returned
  /\ unit' = [op |-> unit.op, args |-> unit.args, returned |-> TRUE, result |-> result]
  /\ UNCHANGED <<store, db, last, ops, calls, offered, run, owed, dispatched, tainted, twin,
               loop>>

HandleVocabUri ==
  /\ unit.op = "handle_vocab_uri"
  /\ UnitReturns(handle_vocab_uri(unit.args.mappings, unit.args.predicate,
                                  unit.args.prefixes, unit.args.strategy))

\* one statement with one row sent through __query_database of an open store
QueryDatabaseCall ==
  /\ unit.op = "__query_database"
  /\ UnitReturns(QueryDatabase(open(Call(store, db), TRUE, FALSE, 0),
                               NodeWriteQuery(NodeQueryComposer(<<>>, OVERWRITE, <<>>)),
                               <<extract_params(__create_current_subject(store, SubjectA))>>,
                               RESOURCE, unit.args.ex))

\* parse_triple of one quad with a literal, then extract_params
ExtractParams ==
  /\ unit.op = "extract_params"
  /\ UnitReturns(LiteralRow(unit.args.config, unit.args.predicate, unit.args.literal))

NewConfig ==
  /\ unit.op = "Neo4jStoreConfig"
  /\ UnitReturns(Construct(unit.args))

SetCustomMapping ==
  /\ unit.op = "set_custom_mapping"
  /\ UnitReturns(set_custom_mapping(unit.args.config, unit.args.prefix_name,
                                    unit.args.local, unit.args.new_value))

DeleteCustomMapping ==
  /\ unit.op = "delete_custom_mapping"
  /\ UnitReturns(delete_custom_mapping(unit.args.config, unit.args.prefix_name, unit.args.local))

SetMultivalPropName ==
  /\ unit.op = "set_multival_prop_name"
  /\ UnitReturns(set_multival_prop_name(unit.args.config, unit.args.prefix_name, unit.args.local))

SetCustomPrefix ==
  /\ unit.op = "set_custom_prefix"
  /\ UnitReturns(set_custom_prefix(unit.args.config, unit.args.name, unit.args.value))

\* the run of a subject and the run of another are imported
ImportRuns ==
  /\ unit.op = "import"
  /\ UnitReturns(Import(unit.args.config, unit.args.first \o unit.args.second))

\* open, then one add for each quad
FeedQuads ==
  /\ unit.op = "feed"
  /\ UnitReturns(AddAll(open(Call(Neo4jStore(unit.args.config, NoDriver), EmptyDb),
                             TRUE, FALSE, 0),
                        unit.args.quads))

\* the relationship statement of a composer, once for each flush
MergeRelationships ==
  /\ unit.op = "merge"
  /\ UnitReturns(MergeFlushes(<<>>,
                              TimestampFields(unit.args.createdAtField, unit.args.updatedAtField),
                              <<"name">>, unit.args.flushes))

\* parse_triple of one quad
ParseOneTriple ==
  /\ unit.op = "parse_one"
  /\ UnitReturns(ParseOne(unit.args.config, unit.args.earlier, unit.args.quad))

\* parse_triple for each quad of the run of a subject
ParseTriples ==
  /\ unit.op = "parse_triple"
  /\ UnitReturns(Accumulated(unit.args.config, unit.args.quads))

NewStore ==
  /\ unit.op = "new"
  /\ UnitReturns(New(unit.args.config, unit.args.neo4j_driver))

InitUnit ==
  /\ store = Neo4jStore(Config(TRUE, 1, SHORTEN, OVERWRITE, <<>>), NoDriver)
  /\ Started
  /\ twin = Twin(store.config)
  /\ unit \in UnitCalls

NextUnit ==
  \/ HandleVocabUri
  \/ NewConfig
  \/ SetCustomMapping
  \/ DeleteCustomMapping
  \/ SetMultivalPropName
  \/ SetCustomPrefix
  \/ ImportRuns
  \/ FeedQuads
  \/ ParseTriples
  \/ ParseOneTriple
  \/ MergeRelationships
  \/ ExtractParams
  \/ QueryDatabaseCall
  \/ NewStore

SpecUnit == InitUnit /\ [][NextUnit]_vars

(***************************************************************************)
(* Calls that overlap.  add, commit and close are async functions: a call  *)
(* runs until it awaits driver.executeQuery inside __flushNodeBuffer or    *)
(* __flushRelBuffer, and the caller may start the next call before the     *)
(* driver has answered.  A task is a call suspended at that await: the     *)
(* composer it is sending (kind, i), the statement written before the      *)
(* await, the length of cur.query_params at the await, and what the call   *)
(* does once the loop of the flush is over (todo).  params is the array    *)
(* object cur.query_params itself: rows pushed during the suspension are   *)
(* in it, and the driver may read it at the call or later.  Once another   *)
(* call has replaced cur.query_params by a new array, the task holds the   *)
(* old one (detached, array).  No query fails here.                        *)
(***************************************************************************)
MaxCalls == 3

Row(kind, key, row) == [kind |-> kind, key |-> key, row |-> row]

Rows(kind, key, params) == [j \in 1..Len(params) |-> Row(kind, key, params[j])]

\* the rows that composers have been given from store before to store after
AppendedTo(kind, before, after) ==
  ConcatAll([i \in 1..Len(after) |->
               Rows(kind, after[i].key,
                    SubSeq(after[i].composer.query_params,
                           (IF i <= Len(before) THEN Len(before[i].composer.query_params) ELSE 0) + 1,
                           Len(after[i].composer.query_params)))])

Appended(before, after) ==
  AppendedTo("node", before.node_buffer, after.node_buffer)
    \o AppendedTo("rel", before.rel_buffer, after.rel_buffer)

\* a store with the log of the rows buffered
Running(st, buffered) == [store |-> st, buffered |-> buffered, task |-> <<>>, error |-> "none"]

\* commit, lines 172-175: the open subject is stored
StoreOpenSubject(x) ==
  IF x.store.current_subject = <<>> THEN x
  ELSE Only({ [x EXCEPT !.store = stored, !.buffered = @ \o Appended(x.store, stored)] :
                stored \in {[__store_current_subject(x.store) EXCEPT !.current_subject = <<>>]} })

\* a call that throws; add catches, calls __close_on_error and throws again
Thrown(x, op, error) ==
  [x EXCEPT !.error = error,
            !.store = IF op = "add" THEN __close_on_error(@) ELSE @]

\* whether the loop of the flush sends the composer
Sends(kind, cur) ==
  IF kind = "node" THEN ~NodeIsRedundant(cur) /\ Len(cur.query_params) > 0
  ELSE ~RelIsRedundant(cur)

BufferOf(st, kind) == IF kind = "node" THEN st.node_buffer ELSE st.rel_buffer

RECURSIVE Continue(_, _, _)
RECURSIVE Scan(_, _, _, _, _)

\* the loop of __flushNodeBuffer or __flushRelBuffer from the i-th composer
\* on, up to the await of __query_database, and the counter reset after it
Scan(x, op, kind, i, todo) ==
  IF i > Len(BufferOf(x.store, kind))
  THEN Continue(IF kind = "node" THEN [x EXCEPT !.store.node_buffer_size = 0]
                ELSE [x EXCEPT !.store.rel_buffer_size = 0], op, todo)
  ELSE
    LET cur == BufferOf(x.store, kind)[i].composer
    IN  IF ~Sends(kind, cur) THEN Scan(x, op, kind, i + 1, todo)
        ELSE IF kind = "rel" /\ RelWriteQueryThrows(cur) THEN Thrown(x, op, NotImplementedError)
        ELSE [x EXCEPT !.task =
                <<[op |-> op, kind |-> kind, i |-> i,
                   query |-> IF kind = "node" THEN NodeWriteQuery(cur) ELSE RelWriteQuery(cur),
                   len |-> Len(cur.query_params),
                   detached |-> FALSE, array |-> <<>>, todo |-> todo]>>]

\* the steps of a call between two awaits of the driver
Continue(x, op, todo) ==
  IF todo = <<>> THEN x
  ELSE
    LET step == Head(todo)
        rest == Tail(todo)
    IN  IF step = "check_node"
        THEN Continue(x, op, IF x.store.node_buffer_size >= x.store.buffer_max_size
                             THEN <<"commit_nodes">> \o rest ELSE rest)
        ELSE IF step = "check_rel"
        THEN Continue(x, op, IF x.store.rel_buffer_size >= x.store.buffer_max_size
                             THEN <<"commit_rels">> \o rest ELSE rest)
        ELSE IF step = "shutdown"
        THEN Continue([x EXCEPT !.store = CloseSession(Call(x.store, EmptyDb)).store], op, rest)
        ELSE IF step = "flush_rels"
        THEN IF ~x.store.session THEN Thrown(x, op, SessionError)
             ELSE Scan(x, op, "rel", 1, rest)
        ELSE \* commit(commit_nodes, commit_rels), then __flushBuffer
          Only({ IF ~stored.store.open THEN Thrown(stored, op, NotOpenError)
                 ELSE IF ~stored.store.session THEN Thrown(stored, op, SessionError)
                 ELSE IF step = "commit_nodes" THEN Scan(stored, op, "node", 1, rest)
                 ELSE IF step = "commit_rels" THEN Scan(stored, op, "rel", 1, rest)
                 ELSE IF step = "commit" THEN Scan(stored, op, "node", 1, <<"flush_rels">> \o rest)
                 ELSE Continue(stored, op, rest) :
                   stored \in {StoreOpenSubject(x)} })

\* the try block of add
AddSteps(st) == IF st.batching THEN <<"check_node", "check_rel">> ELSE <<"commit">>

CommitSteps(commit_nodes, commit_rels) ==
  IF ~commit_nodes /\ ~commit_rels THEN <<"commit">>
  ELSE IF commit_nodes /\ commit_rels THEN <<"commit_none">>
  ELSE IF commit_nodes THEN <<"commit_nodes">>
  ELSE <<"commit_rels">>

CloseSteps(commit_pending_transaction) ==
  IF commit_pending_transaction THEN <<"commit_nodes", "commit_rels", "shutdown">>
  ELSE <<"shutdown">>

\* add up to its first await of the driver
StartOfAdd(x, quad) ==
  IF ~x.store.open THEN Thrown(x, "open check", NotOpenError)
  ELSE IF quad.subject.termType # "NamedNode" THEN x
  ELSE
    LET checked == __check_current_subject(x.store, quad.subject)
        parsed == parse_triple(checked.current_subject[1], quad, checked.mappings)
    IN  IF parsed.throws THEN Thrown([x EXCEPT !.store = checked], "parse", ShortenStrictError)
        ELSE Continue([x EXCEPT !.store = [checked EXCEPT !.current_subject = <<parsed.triple>>,
                                                          !.total_triples = @ + 1],
                                !.buffered = @ \o Appended(x.store, checked)],
                      "add", AddSteps(checked))

\* the call has run up to an await of the driver, or to its end
Suspends(x, r) ==
  /\ store' = r.store
  /\ loop' = [loop EXCEPT !.tasks = x.tasks \o r.task,
                          !.buffered = r.buffered,
                          !.failed = @ \/ r.error # "none"]

Idle == UNCHANGED <<last, calls, offered, run, owed, dispatched, tainted, twin, unit>>

AsyncOpen ==
  /\ ~store.open /\ ops = 0
  /\ \E r \in {open(Call(store, db), TRUE, FALSE, 0)} : store' = r.store
  /\ UNCHANGED <<db, ops, loop>>
  /\ Idle

StartAdd(quad) ==
  /\ ops < MaxCalls /\ (store.open \/ ops > 0)
  /\ \E r \in {StartOfAdd(Running(store, loop.buffered), quad)} : Suspends(loop, r)
  /\ ops' = ops + 1
  /\ UNCHANGED db
  /\ Idle

StartCommit(commit_nodes, commit_rels) ==
  /\ ops < MaxCalls /\ (store.open \/ ops > 0)
  /\ \E r \in {Continue(Running(store, loop.buffered), "commit",
                        CommitSteps(commit_nodes, commit_rels))} : Suspends(loop, r)
  /\ ops' = ops + 1
  /\ UNCHANGED db
  /\ Idle

StartClose(commit_pending_transaction) ==
  /\ ops < MaxCalls /\ (store.open \/ ops > 0)
  /\ \E r \in {Continue(Running(store, loop.buffered), "close",
                        CloseSteps(commit_pending_transaction))} : Suspends(loop, r)
  /\ ops' = ops + 1
  /\ UNCHANGED db
  /\ Idle

\* the array that the task has handed to the driver, as it is now
ArrayOf(task) ==
  IF task.detached THEN task.array
  ELSE BufferOf(store, task.kind)[task.i].composer.query_params

\* cur.empty_query_params(): the composer gets a new array, the tasks that
\* await on the old one keep it
Detached(tasks, kind, i, array) ==
  [t \in 1..Len(tasks) |->
     IF tasks[t].kind = kind /\ tasks[t].i = i /\ ~tasks[t].detached
     THEN [tasks[t] EXCEPT !.detached = TRUE, !.array = array]
     ELSE tasks[t]]

Without(tasks, t) == SubSeq(tasks, 1, t - 1) \o SubSeq(tasks, t + 1, Len(tasks))

EmptiedAt(st, kind, i) ==
  IF kind = "node" THEN [st EXCEPT !.node_buffer[i].composer = NodeEmptyQueryParams(@)]
  ELSE [st EXCEPT !.rel_buffer[i].composer = RelEmptyQueryParams(@)]

\* the driver answers the query of the t-th task, which goes on to its next
\* await or to its end; the driver has read the array when it was called,
\* or late, with the rows pushed since
Resume(t, late) ==
  /\ t <= Len(loop.tasks)
  /\ \E task \in {loop.tasks[t]} :
     \E array \in {ArrayOf(task)} :
     \E params \in {IF late THEN array ELSE SubSeq(array, 1, task.len)} :
     \E key \in {BufferOf(store, task.kind)[task.i].key} :
     \E r \in {Scan(Running(EmptiedAt(store, task.kind, task.i), loop.buffered),
                    task.op, task.kind, task.i + 1, task.todo)} :
       /\ late => Len(array) > task.len
       /\ db' = ExecuteQuery(db, task.query, params)
       /\ store' = r.store
       /\ loop' = [tasks |-> Detached(Without(loop.tasks, t), task.kind, task.i,
                                      BufferOf(store, task.kind)[task.i].composer.query_params)
                               \o r.task,
                   buffered |-> r.buffered,
                   written |-> loop.written \o Rows(task.kind, key, params),
                   failed |-> loop.failed \/ r.error # "none"]
  /\ UNCHANGED ops
  /\ Idle

AsyncQuads ==
  { Quad(SubjectA, NamePredicate, LiteralA),
    Quad(SubjectA, NamePredicate, SubjectB),
    Quad(SubjectB, NamePredicate, SubjectA) }

AsyncConfigs ==
  { Config(b, n, IGNORE, OVERWRITE, <<>>) : b \in BOOLEAN, n \in 1..MaxBatch } \
    { Config(FALSE, n, IGNORE, OVERWRITE, <<>>) : n \in 2..MaxBatch }

InitAsync ==
  /\ Constructed(AsyncConfigs)
  /\ twin = Twin(store.config)

NextAsync ==
  \/ AsyncOpen
  \/ \E quad \in AsyncQuads : StartAdd(quad)
  \/ StartCommit(FALSE, FALSE)
  \/ StartClose(TRUE)
  \/ \E t \in 1..MaxCalls, late \in BOOLEAN : Resume(t, late)

SpecAsync == InitAsync /\ [][NextAsync]_vars

(***************************************************************************)
(* Shorthands of the properties.                                           *)
(***************************************************************************)
Kinds(sent) == [i \in 1..Len(sent) |-> sent[i].query.kind]

NodeRowsBuffered(st) ==
  ConcatAll([i \in 1..Len(st.node_buffer) |-> st.node_buffer[i].composer.query_params])

RelRowsBuffered(st) ==
  ConcatAll([i \in 1..Len(st.rel_buffer) |-> st.rel_buffer[i].composer.query_params])

Clean == \A i \in 1..Len(calls) : calls[i].ok

\* the flushes that write both sides
WritesBothSides(call) ==
  \/ call.op = "commit" /\ call.flags = <<FALSE, FALSE>>
  \/ call.op = "add"
  \/ call.op = "close" /\ call.flags = <<TRUE>>

(***************************************************************************)
(* C1: in every flush that writes both sides (commit with no flags, an     *)
(* unbatched add, a batched add that reaches both thresholds, close(true)) *)
(* every node-merge query is handed to the driver before the first         *)
(* relationship-merge query.                                               *)
(***************************************************************************)
C1_NodesBeforeRels ==
  WritesBothSides(last) =>
    \A i \in 1..Len(last.sent), j \in 1..Len(last.sent) :
      (Kinds(last.sent)[i] = "rel" /\ Kinds(last.sent)[j] = "node") => i > j

\* a batched add that reached both thresholds and wrote both sides
C1_Witness ==
  /\ last.op = "add" /\ store.batching /\ last.error = "none"
  /\ \E i \in 1..Len(last.sent) : Kinds(last.sent)[i] = "node"
  /\ \E i \in 1..Len(last.sent) : Kinds(last.sent)[i] = "rel"

(***************************************************************************)
(* C2: after successful add calls on an open store and then a successful   *)
(* close(true), or commit with no flags, no accepted data is lost: the     *)
(* label, the relationship, the last value of every single-valued property *)
(* and every value of every multi-valued property of each contiguous       *)
(* subject run, the last run included, has been written in a row of that   *)
(* subject, with batching on or off.                                       *)
(***************************************************************************)
FlushesAll(call) ==
  /\ call.error = "none" /\ call.wasOpen
  /\ \/ call.op = "close" /\ call.flags = <<TRUE>>
     \/ call.op = "commit" /\ call.flags = <<FALSE, FALSE>>

C2_NoAcceptedDataLost ==
  (Clean /\ FlushesAll(last)) => (owed \cup run.facts) \subseteq dispatched

\* a batched import of several runs, the last one with a relationship,
\* whose threshold is below the length of the stream
C2_Witness ==
  /\ Clean /\ FlushesAll(last) /\ last.op = "close"
  /\ store.batching /\ store.buffer_max_size < Adds
  /\ owed # {}
  /\ \E f \in run.facts : f.kind = "rel"

(***************************************************************************)
(* C3: for every combination of its two flags, a commit that returns       *)
(* leaves no subject open and has handed to the driver, and cleared, every *)
(* buffered row of each requested side: nodes for (true,false),            *)
(* relationships for (false,true), both for (true,true) and for ().        *)
(***************************************************************************)
NodesRequested(flags) == flags[1] \/ ~flags[2]
RelsRequested(flags) == flags[2] \/ ~flags[1]

SentRows(sent, kind) ==
  ConcatAll([i \in 1..Len(sent) |->
               IF sent[i].query.kind = kind THEN sent[i].params ELSE <<>>])

\* the store once the open subject is finalized
Finalized(st) == IF st.current_subject # <<>> THEN __store_current_subject(st) ELSE st

C3_CommitFlushesRequested ==
  [][ (last'.op = "commit" /\ last'.error = "none" /\ calls' # calls) =>
        /\ store'.current_subject = <<>>
        /\ NodesRequested(last'.flags) =>
             /\ NodeRowsBuffered(store') = <<>>
             /\ SentRows(last'.sent, "node") = NodeRowsBuffered(Finalized(store))
        /\ RelsRequested(last'.flags) =>
             /\ RelRowsBuffered(store') = <<>>
             /\ SentRows(last'.sent, "rel") = RelRowsBuffered(Finalized(store)) ]_vars

(***************************************************************************)
(* C4: when a database write fails during add, batching on or off, the     *)
(* error reaches the caller of add, every node composer and every          *)
(* relationship composer holds no row afterwards, no query follows the     *)
(* failed one, and the store is still open.                                *)
(***************************************************************************)
C4_AddFailureDrainsBuffers ==
  (last.op = "add" /\ Len(last.sent) > 0 /\ ~last.sent[Len(last.sent)].ok) =>
    /\ last.error = DriverError
    /\ NodeRowsBuffered(store) = <<>>
    /\ RelRowsBuffered(store) = <<>>
    /\ \A i \in 1..(Len(last.sent) - 1) : last.sent[i].ok
    /\ store.open

\* a batched add whose node flush failed while relationship rows were buffered
C4_Witness ==
  /\ last.op = "add" /\ last.error = DriverError /\ store.batching
  /\ store.rel_buffer_size > 0
  /\ RelRowsBuffered(store) = <<>>

(***************************************************************************)
(* C5: when a database write fails during a flush started by commit or by  *)
(* close, the rows of the failed batch are discarded from the composer it  *)
(* came from, so that a later commit or close does not send them again.    *)
(***************************************************************************)
FailedEntry == last.sent[Len(last.sent)]

FailedComposerRows ==
  IF FailedEntry.query.kind = "node"
  THEN store.node_buffer[MapIndex(store.node_buffer, FailedEntry.key)].composer.query_params
  ELSE store.rel_buffer[MapIndex(store.rel_buffer, FailedEntry.key)].composer.query_params

C5_FailedFlushDiscardsBatch ==
  (last.op \in {"commit", "close"} /\ last.error = DriverError) =>
    FailedComposerRows = <<>>

(***************************************************************************)
(* C6: for every finite triple stream, the import with batching enabled    *)
(* (any threshold, also one smaller than the stream) and the import with   *)
(* batching disabled, each ended by close(true) on an empty database,      *)
(* leave the same graph: nodes, labels, property values, relationships.    *)
(***************************************************************************)
C6_BatchedEqualsUnbatched ==
  (last.op = "close" /\ Commits = 0 /\ store.batching /\ ~twin.store.batching) =>
    db = twin.db

(***************************************************************************)
(* C7: a contiguous run of triples of subject A, then one of a different   *)
(* subject B, then close: with batching on and no threshold reached,       *)
(* exactly two node rows are written, one with uri A and one with uri B;   *)
(* and in every mode nothing is written for a subject that was not stated  *)
(* by a triple of that subject.                                            *)
(***************************************************************************)
AddedUris == [i \in 1..Adds |-> SelectSeq(calls, LAMBDA c : c.op = "add")[i].uri]

\* the adds are a run of one subject followed by a run of another
TwoRuns ==
  /\ Adds >= 2
  /\ AddedUris[1] # AddedUris[Adds]
  /\ \E k \in 1..(Adds - 1) :
       /\ \A i \in 1..k : AddedUris[i] = AddedUris[1]
       /\ \A i \in (k + 1)..Adds : AddedUris[i] = AddedUris[Adds]

NoThresholdReached == \A i \in 1..Len(calls) : calls[i].op = "add" => ~calls[i].flushed

C7_TwoRowsNoLeak ==
  /\ dispatched \subseteq offered
  /\ (store.batching /\ last.op = "close" /\ Commits = 0 /\ TwoRuns
        /\ NoThresholdReached) =>
       /\ Len(NodeRowUris(last.sent)) = 2
       /\ Range(NodeRowUris(last.sent)) = {AddedUris[1], AddedUris[Adds]}

\* two runs of several triples, the first with a label and a property
C7_Witness ==
  /\ store.batching /\ last.op = "close" /\ Commits = 0 /\ TwoRuns
  /\ NoThresholdReached
  /\ Adds >= 4
  /\ AddedUris[2] = AddedUris[1] /\ AddedUris[Adds - 1] = AddedUris[Adds]
  /\ \E f \in dispatched : f.kind = "label" /\ f.uri = AddedUris[1]
  /\ \E f \in dispatched : f.kind = "single" /\ f.uri = AddedUris[1]

(***************************************************************************)
(* C8: under SHORTEN, add of a triple whose predicate (or whose rdf:type   *)
(* object) has a namespace that is in no prefix raises                     *)
(* ShortenStrictException to the caller, with batching on or off.          *)
(* C8_ShortenAlwaysRaises states it for every triple;                      *)
(* C8_ShortenRaises for the triples add does not skip: a named subject and *)
(* a literal or named object.                                              *)
(***************************************************************************)
UnknownNamespace(config, uri) ==
  getNamespacePart(uri) \notin Range(config.prefixes)

\* the predicate, or the class of a type statement, has an unknown namespace
NamespaceAbsent(config, quad) ==
  /\ quad.predicate.termType = "NamedNode"
  /\ IF quad.predicate.value = RDF_TYPE /\ quad.object.termType = "NamedNode"
     THEN UnknownNamespace(config, quad.object.value)
     ELSE UnknownNamespace(config, quad.predicate.value)

ShortenAdd ==
  /\ last.op = "add" /\ last.wasOpen
  /\ store.handle_vocab_uri_strategy = SHORTEN

C9_NoPartialCommit == tainted \cap dispatched = {}

(***************************************************************************)
(* C10: merging is idempotent.  Adding the same type statement twice, or   *)
(* the same literal twice under OVERWRITE, within one subject run or       *)
(* across separate commits, leaves the database in the state that adding   *)
(* it once leaves (one label, one scalar property with that value).        *)
(***************************************************************************)
C10_TwiceEqualsOnce ==
  (twin.repeats = 1 /\ last.op = "commit") => db = twin.db

(***************************************************************************)
(* C11: under the ARRAY strategy a multivalued property has set semantics. *)
(* After any adds and commits that add the same literal value of the same  *)
(* predicate to the same subject again, within one row or across separate  *)
(* flushes, the stored array holds that value exactly once; no stored      *)
(* array ever holds an element twice.                                      *)
(***************************************************************************)
NoDuplicates(seq) == \A i \in 1..Len(seq), j \in 1..Len(seq) : seq[i] = seq[j] => i = j

Occurrences(seq, x) == Cardinality({i \in 1..Len(seq) : seq[i] = x})

C11_ArraySetSemantics ==
  /\ \A u \in DOMAIN db.nodes : \A p \in DOMAIN db.nodes[u].props :
       db.nodes[u].props[p].kind = "array" => NoDuplicates(db.nodes[u].props[p].v)
  /\ \A f \in dispatched : f.kind = "multi" =>
       /\ Str(f.uri) \in DOMAIN db.nodes
       /\ f.name \in DOMAIN db.nodes[Str(f.uri)].props
       /\ db.nodes[Str(f.uri)].props[f.name].kind = "array"
       /\ Occurrences(db.nodes[Str(f.uri)].props[f.name].v, f.value) = 1

\* the rows of the node queries of a call that succeeded
WrittenNodeRows(sent) ==
  ConcatAll([i \in 1..Len(sent) |->
               IF sent[i].ok /\ sent[i].query.kind = "node" THEN sent[i].params ELSE <<>>])

\* a value stored by an earlier flush is written again, twice in one row
C11_Witness ==
  /\ store.handle_multival_strategy = ARRAY
  /\ \E i \in 1..Len(calls) - 1 : calls[i].op = "add" /\ calls[i].flushed
  /\ \E k \in 1..Len(WrittenNodeRows(last.sent)) :
       \E p \in DOMAIN WrittenNodeRows(last.sent)[k] :
         /\ WrittenNodeRows(last.sent)[k][p].kind = "array"
         /\ ~NoDuplicates(WrittenNodeRows(last.sent)[k][p].v)
         /\ Len(db.nodes[WrittenNodeRows(last.sent)[k][URI_KEY]].props[p].v) = 1

(***************************************************************************)
(* C12: the store only appends and merges.  Over any sequence of add,      *)
(* commit and close the nodes of the database, the labels of each node,    *)
(* the property keys of each node and the relationships never shrink; and  *)
(* a property of a node keeps its stored value through a call none of      *)
(* whose rows for that node carries the property, also when the statement  *)
(* assigns it because another row of the label group carried it.           *)
(***************************************************************************)
\* the written node rows of a call for the node u carry the property p
Carried(sent, u, p) ==
  \E k \in 1..Len(WrittenNodeRows(sent)) :
    WrittenNodeRows(sent)[k][URI_KEY] = u /\ p \in DOMAIN WrittenNodeRows(sent)[k]

C12_NeverShrinks ==
  [][ /\ DOMAIN db.nodes \subseteq DOMAIN db'.nodes
      /\ db.rels \subseteq db'.rels
      /\ \A u \in DOMAIN db.nodes :
           /\ db.nodes[u].labels \subseteq db'.nodes[u].labels
           /\ DOMAIN db.nodes[u].props \subseteq DOMAIN db'.nodes[u].props
           /\ \A p \in DOMAIN db.nodes[u].props :
                ~Carried(last'.sent, u, p) =>
                  db'.nodes[u].props[p] = db.nodes[u].props[p] ]_vars

\* the last call wrote one row for a node with a statement that assigns a
\* property the row omits, and the node has a stored value of it
C12_Witness ==
  \E i \in 1..Len(last.sent) : \E k \in 1..Len(last.sent[i].params) :
    /\ last.sent[i].ok /\ last.sent[i].query.kind = "node"
    /\ Len(WrittenNodeRows(last.sent)) = 1
    /\ \E p \in last.sent[i].query.single \ DOMAIN last.sent[i].params[k] :
         p \in DOMAIN db.nodes[last.sent[i].params[k][URI_KEY]].props

(***************************************************************************)
(* C13: once a relationship row (from, to) of any type has been flushed,   *)
(* the database holds a Resource node with uri = from and one with         *)
(* uri = to, also when no node row was ever written for the 'to' URI and   *)
(* when the relationship side is flushed before the node side.             *)
(***************************************************************************)
IsResourceNode(d, uri) ==
  /\ Str(uri) \in DOMAIN d.nodes
  /\ RESOURCE \in d.nodes[Str(uri)].labels
  /\ d.nodes[Str(uri)].props[URI_KEY] = Str(uri)

C13_RelEndpointsExist ==
  /\ \A f \in dispatched : f.kind = "rel" =>
       IsResourceNode(db, f.uri) /\ IsResourceNode(db, f.value.v)
  /\ \A r \in db.rels : IsResourceNode(db, r.from) /\ IsResourceNode(db, r.to)

\* commit(false, true) writes the relationship while the node row of its
\* subject is still buffered and no node query was ever sent
C13_Witness ==
  /\ last.op = "commit" /\ last.flags = <<FALSE, TRUE>> /\ last.error = "none"
  /\ Kinds(last.sent) = <<"rel">>
  /\ \A i \in 1..(Len(calls) - 1) : ~calls[i].flushed
  /\ NodeRowsBuffered(store) # <<>>
  /\ \E r \in db.rels : r.from # r.to /\ IsResourceNode(db, r.to)

(***************************************************************************)
(* C14: for every URI and prefix table handle_vocab_uri returns, under     *)
(* IGNORE, what follows the last '#', else what follows the last '/', else *)
(* what follows the last ':'; under KEEP the URI unchanged; under SHORTEN, *)
(* when the namespace part of the URI is a key of the inverse prefix       *)
(* table, prefix + '__' + local part.                                      *)
(***************************************************************************)
Occurs(uri, ch) == \E i \in 1..Len(uri) : uri[i] = ch

\* i is the last position of ch in uri
IsLast(uri, i, ch) == uri[i] = ch /\ \A j \in (i + 1)..Len(uri) : uri[j] # ch

\* uri is cut at position i, the last '#', else the last '/', else the last ':'
IsCut(uri, i) ==
  \/ IsLast(uri, i, "#")
  \/ ~Occurs(uri, "#") /\ IsLast(uri, i, "/")
  \/ ~Occurs(uri, "#") /\ ~Occurs(uri, "/") /\ IsLast(uri, i, ":")

VocabReturned == unit.op = "handle_vocab_uri" /\ unit.returned

C14_StrategyResults ==
  VocabReturned =>
    /\ unit.args.strategy = KEEP => unit.result = Name(unit.args.predicate)
    /\ \A i \in 1..Len(unit.args.predicate) : IsCut(unit.args.predicate, i) =>
         /\ unit.args.strategy = IGNORE =>
              unit.result = Name(SubSeq(unit.args.predicate, i + 1, Len(unit.args.predicate)))
         /\ (unit.args.strategy = SHORTEN
               /\ SubSeq(unit.args.predicate, 1, i) \in DOMAIN unit.args.prefixes) =>
              unit.result =
                Name(<<unit.args.prefixes[SubSeq(unit.args.predicate, 1, i)], "__">>
                       \o SubSeq(unit.args.predicate, i + 1, Len(unit.args.predicate)))

\* ex/p with ex -> ex/ gives ex__p
C14_Witness ==
  /\ VocabReturned /\ unit.args.strategy = SHORTEN
  /\ unit.args.predicate = <<"ex", "/", "p">>
  /\ <<"ex", "/">> \in DOMAIN unit.args.prefixes
  /\ unit.result = Name(<<"ex", "__", "p">>)

(***************************************************************************)
(* C15: under MAP, for every URI and every mapping table, the result is    *)
(* the mapped value, whatever that value is, when the full URI is a key of *)
(* the table, and the IGNORE local part when it is not; MAP never raises.  *)
(***************************************************************************)
C15_MapHitOrIgnore ==
  (VocabReturned /\ unit.args.strategy = MAP) =>
    /\ ~unit.result.throws
    /\ unit.args.predicate \in DOMAIN unit.args.mappings =>
         unit.result.value = unit.args.mappings[unit.args.predicate]
    /\ unit.args.predicate \notin DOMAIN unit.args.mappings =>
         unit.result.value = handle_vocab_uri_ignore(unit.args.predicate)

(***************************************************************************)
(* C16: across open/close cycles, close closes the driver only when the    *)
(* store created it from credentials; a driver supplied to the constructor *)
(* is never closed by the store and is still held, not closed, after       *)
(* close.  Every driver a call closed was created by the store and the     *)
(* call was close; a store built around a supplied driver holds that       *)
(* driver, open to use, in every state; a store built from credentials     *)
(* holds no driver after a close that returned.                            *)
(***************************************************************************)
Closes == Cardinality({i \in 1..Len(calls) : calls[i].op = "close" /\ calls[i].ok})

Opens == Cardinality({i \in 1..Len(calls) : calls[i].op = "open"})

C16_DriverClosedOnlyIfOwned ==
  /\ \A i \in 1..Len(last.released) :
        last.op = "close" /\ last.released[i].creator = "store"
  /\ ~store.driver_owned => store.driver = SuppliedDriver
  /\ (store.driver_owned /\ last.op = "close" /\ last.error = "none") =>
        store.driver = NoDriver

\* a second close of a store built around a supplied driver, after a reopen
C16_Witness ==
  /\ ~store.driver_owned
  /\ last.op = "close" /\ last.error = "none" /\ last.wasOpen
  /\ Closes = 2 /\ Opens = 2
  /\ ~store.driver[1].closed

(***************************************************************************)
(* C17: the unsupported operations always fail.  remove throws for every   *)
(* quad, on an open and on a closed store, hands no query to the driver    *)
(* and leaves the store and the database as they were;                     *)
(* RelationshipQueryComposer.add_props throws for every set of names, the  *)
(* empty one included; and every relationship statement handed to the      *)
(* driver comes from a composer without property names.                    *)
(***************************************************************************)
SentRelComposers(sent, st) ==
  { st.rel_buffer[MapIndex(st.rel_buffer, sent[i].key)].composer :
      i \in {i \in 1..Len(sent) : sent[i].query.kind = "rel"} }

C17_UnsupportedAlwaysFail ==
  [][ /\ last'.op = "remove" =>
           /\ last'.error = RemoveError
           /\ last'.sent = <<>>
           /\ store' = store /\ db' = db
      /\ last'.op = "add_props" => last'.error = AddPropsError
      /\ \A c \in SentRelComposers(last'.sent, store') : c.props = {} ]_vars

\* remove on an open store that holds buffered rows and an open subject
C17_Witness ==
  /\ last.op = "remove" /\ last.wasOpen /\ last.error = RemoveError
  /\ NodeRowsBuffered(store) # <<>>
  /\ RelRowsBuffered(store) # <<>>
  /\ store.current_subject # <<>>

(***************************************************************************)
(* C18: add requires the open state.  On a store that was never opened or  *)
(* has been closed, add throws 'The Store must be open.' and leaves the    *)
(* current subject, the buffers, the counters and the database as they     *)
(* were; and no call made while is_open() is false hands a statement to    *)
(* the driver.                                                             *)
(***************************************************************************)
C18_AddRequiresOpen ==
  [][ /\ (last'.op = "add" /\ ~store.open) =>
           /\ last'.error = NotOpenError
           /\ store' = store /\ db' = db
      /\ ~store.open => (last'.sent = <<>> /\ db' = db) ]_vars

\* add on a store that was closed while a subject was open
C18_Witness ==
  /\ last.op = "add" /\ ~last.wasOpen /\ last.error = NotOpenError
  /\ last.quad[1].subject.termType = "NamedNode"
  /\ Closes = 1 /\ Opens = 1
  /\ store.current_subject # <<>>

(***************************************************************************)
(* C19: on an open store, add of a quad whose subject is not a named node  *)
(* returns without error and leaves the whole store as it was: the open    *)
(* subject stays open, no row is buffered, no statement is handed to the   *)
(* driver, with batching on or off, and total_triples keeps its value.  A  *)
(* quad with a named subject whose predicate is not a named node adds      *)
(* nothing to the accumulator: the rows sent by the call and the rows the  *)
(* store holds afterwards are rows it held before, or the row of the       *)
(* newly opened subject with its uri alone.                                *)
(***************************************************************************)
RowsHeld(st, sent, kind) ==
  Range(SentRows(sent, kind))
    \cup Range(IF kind = "node" THEN NodeRowsBuffered(Finalized(st))
               ELSE RelRowsBuffered(Finalized(st)))

BareRow(st, subject) == extract_params(__create_current_subject(st, subject))

C19_NonNamedSkipped ==
  [][ (last'.op = "add" /\ store.open) =>
        /\ last'.quad[1].subject.termType # "NamedNode" =>
             /\ last'.error = "none"
             /\ last'.sent = <<>>
             /\ store' = store /\ db' = db
        /\ ( /\ last'.quad[1].subject.termType = "NamedNode"
             /\ last'.quad[1].predicate.termType # "NamedNode" ) =>
             /\ last'.error \in {"none", DriverError}
             /\ RowsHeld(store', last'.sent, "node")
                  \subseteq RowsHeld(store, <<>>, "node")
                              \cup {BareRow(store, last'.quad[1].subject)}
             /\ RowsHeld(store', last'.sent, "rel") \subseteq RowsHeld(store, <<>>, "rel")
    ]_vars

\* a quad with a blank-node subject is added while the subject opened by a
\* quad with a blank-node predicate is open, its accumulator empty
C19_Witness ==
  /\ last.op = "add" /\ last.wasOpen /\ last.error = "none"
  /\ last.quad[1].subject.termType = "BlankNode"
  /\ store.current_subject # <<>>
  /\ extract_params(store.current_subject[1]) = BareRow(store, SubjectA)
  /\ store.current_subject[1].labels = <<>>
  /\ store.current_subject[1].relationships = <<>>
  /\ store.total_triples = 1
  /\ Adds = 2

(***************************************************************************)
(* C20: constructing a store fails unless exactly one connection source is *)
(* valid.  With a driver and auth_data the constructor throws 'Either      *)
(* initialize the store with credentials or driver. You cannot do both.';  *)
(* with no driver it throws when auth_data is null, throws                 *)
(* WrongAuthenticationException when one of uri, database, user, pwd is    *)
(* missing, and throws when one of them is empty; a constructor that       *)
(* throws hands no store to the caller.                                    *)
(***************************************************************************)
NewReturned == unit.op = "new" /\ unit.returned

NewAuth == unit.args.config.auth_data

Missing(auth) == Range(NEO4J_AUTH_REQUIRED_FIELDS) \ DOMAIN auth[1]

Empty(auth) == {f \in DOMAIN auth[1] : auth[1][f] = ""}

ExactlyOneSource ==
  \/ unit.args.neo4j_driver # NoDriver /\ NewAuth = <<>>
  \/ /\ unit.args.neo4j_driver = NoDriver /\ NewAuth # <<>>
     /\ Missing(NewAuth) = {} /\ Empty(NewAuth) = {}

FailsFast ==
  /\ (unit.args.neo4j_driver # NoDriver /\ NewAuth # <<>>) =>
        unit.result.error = BothSourcesError
  /\ (unit.args.neo4j_driver = NoDriver /\ NewAuth = <<>>) =>
        unit.result.error = AuthMissingError
  /\ (unit.args.neo4j_driver = NoDriver /\ NewAuth # <<>> /\ Empty(NewAuth) # {}) =>
        unit.result.error # "none"
  /\ unit.result.error # "none" => unit.result.store = <<>>
  /\ unit.result.error = "none" <=> ExactlyOneSource

C20_FailFast ==
  NewReturned =>
    /\ FailsFast
    /\ (unit.args.neo4j_driver = NoDriver /\ NewAuth # <<>> /\ Missing(NewAuth) # {}) =>
          unit.result.error = WrongAuthenticationException

(***************************************************************************)
(* C20, what check_auth_data does: with no driver and auth_data given the  *)
(* error is decided by the first of uri, database, user, pwd, in this      *)
(* order, that is missing or empty: WrongAuthenticationException when it   *)
(* is missing, the empty-value error when it is empty.  The rest of C20    *)
(* holds.                                                                  *)
(***************************************************************************)
Position(f) == CHOOSE i \in 1..Len(NEO4J_AUTH_REQUIRED_FIELDS) : NEO4J_AUTH_REQUIRED_FIELDS[i] = f

FirstOffence(auth) ==
  CHOOSE f \in Missing(auth) \cup Empty(auth) :
    \A g \in Missing(auth) \cup Empty(auth) : Position(f) <= Position(g)

C20_FailFastFirstOffence ==
  NewReturned =>
    /\ FailsFast
    /\ ( /\ unit.args.neo4j_driver = NoDriver /\ NewAuth # <<>>
         /\ Missing(NewAuth) \cup Empty(NewAuth) # {} ) =>
          unit.result.error =
            IF FirstOffence(NewAuth) \in Missing(NewAuth)
            THEN WrongAuthenticationException ELSE EmptyValueError

\* no driver, uri empty and pwd missing: the empty-value error is thrown
C20_EmptyBeforeMissing ==
  /\ NewReturned
  /\ unit.args.neo4j_driver = NoDriver /\ NewAuth # <<>>
  /\ "uri" \in Empty(NewAuth) /\ "pwd" \in Missing(NewAuth)
  /\ unit.result.error = EmptyValueError
  /\ unit.result.store = <<>>

(***************************************************************************)
(* C21: open first issues the constraint-introspection statement; it       *)
(* issues the create-constraint statement only if the constraint was not   *)
(* found and create is true; a failure of the create-constraint statement  *)
(* is swallowed and the store becomes open; if the introspection statement *)
(* fails, open fails and the store is not open.                            *)
(***************************************************************************)
Statements(schema) == [i \in 1..Len(schema) |-> schema[i].statement]

C21_OpenConstraintCheck ==
  last.op = "open" =>
    /\ Len(last.schema) \in {1, 2}
    /\ Statements(last.schema) \in {<<SHOW_CONSTRAINTS>>,
                                    <<SHOW_CONSTRAINTS, CREATE_CONSTRAINT>>}
    /\ Len(last.schema) = 2 <=>
         (last.schema[1].ok /\ last.schema[1].answer = "absent" /\ last.flags[1])
    /\ last.schema[1].ok => (last.error = "none" /\ store.open)
    /\ ~last.schema[1].ok => (last.error # "none" /\ ~store.open)
    /\ last.sent = <<>>

\* open(true) on a database without the constraint: the create statement
\* fails and the store is open
C21_Witness ==
  /\ last.op = "open" /\ last.flags = <<TRUE>>
  /\ Len(last.schema) = 2 /\ ~last.schema[2].ok
  /\ last.error = "none" /\ store.open

(***************************************************************************)
(* C22: when driver.executeQuery rejects a write with the known Neo4j      *)
(* type-mismatch message, the caller gets                                  *)
(* CypherMultipleTypesMultiValueException; when it rejects with any other  *)
(* error, the caller gets that error, unchanged; the statement is sent     *)
(* once and the failure is not swallowed.                                  *)
(***************************************************************************)
QueryReturned == unit.op = "__query_database" /\ unit.returned

C22_DriverFailureSurfaces ==
  (QueryReturned /\ unit.args.ex # <<>>) =>
    /\ Len(unit.result.sent) = 1 /\ ~unit.result.sent[1].ok
    /\ unit.result.db = db
    /\ unit.result.error # "none"
    /\ unit.result.error =
         IF unit.args.ex[1] = NEO4J_DRIVER_MULTIPLE_TYPE_ERROR_MESSAGE
         THEN CypherMultipleTypesMultiValueException
         ELSE unit.args.ex[1]

(***************************************************************************)
(* C22, what the code does: the same, for every error whose message is not *)
(* the name of a property that the message table inherits.                 *)
(***************************************************************************)
C22_DriverFailureSurfacesOwnKeys ==
  (QueryReturned /\ unit.args.ex # <<>>) =>
    /\ Len(unit.result.sent) = 1 /\ ~unit.result.sent[1].ok
    /\ unit.result.db = db
    /\ unit.result.error # "none"
    /\ unit.args.ex[1] \notin {"constructor", "__proto__"} =>
         unit.result.error =
           IF unit.args.ex[1] = NEO4J_DRIVER_MULTIPLE_TYPE_ERROR_MESSAGE
           THEN CypherMultipleTypesMultiValueException
           ELSE unit.args.ex[1]

(***************************************************************************)
(* C23: literal conversion in the row of extract_params.  A literal with   *)
(* an integer datatype and a digit string yields that number; a            *)
(* boolean-datatype literal "true" yields true; a literal without a        *)
(* narrowing datatype (none, or xsd:string) whose lexical form is a digit  *)
(* string yields that number; a string that is no number stays the same    *)
(* string.  Under ARRAY the value is the one element of the array.         *)
(***************************************************************************)
RowReturned ==
  /\ unit.op = "extract_params" /\ unit.returned
  /\ unit.args.predicate = NamePredicate

\* the value the row carries for the property of the literal
RowValue ==
  LET cell == unit.result[handle_vocab_uri_ignore(NamePredicate.value)]
  IN  IF cell.kind = "array" THEN cell.v[1] ELSE cell

DigitValue(d) == CHOOSE n \in 0..9 : <<"0", "1", "2", "3", "4", "5", "6", "7", "8", "9">>[n + 1] = d

RECURSIVE Decimal(_)
Decimal(digits) ==
  IF digits = <<>> THEN 0
  ELSE 10 * Decimal(SubSeq(digits, 1, Len(digits) - 1)) + DigitValue(digits[Len(digits)])

\* the number n, written without leading zeros
IsNumber(val, n) ==
  /\ val.kind = "number"
  /\ \A i \in 1..Len(val.v) : val.v[i] \in Digits
  /\ Decimal(val.v) = n
  /\ Len(val.v) > 1 => val.v[1] # "0"

C23_LiteralConversion ==
  RowReturned =>
    LET lexical == unit.args.literal.value
        datatype == unit.args.literal.datatype
    IN  /\ (datatype \in {XSD_INTEGER, XSD_INT} /\ lexical \in DigitStrings) =>
              IsNumber(RowValue, Decimal(lexical))
        /\ (datatype = XSD_BOOLEAN /\ lexical = <<"true">>) =>
              RowValue = [kind |-> "boolean", v |-> <<"true">>]
        /\ (datatype \in {NoDatatype, XSD_STRING} /\ lexical \in DigitStrings) =>
              IsNumber(RowValue, Decimal(lexical))
        /\ (datatype \in {NoDatatype, XSD_STRING} /\ lexical \notin DigitStrings) =>
              RowValue = [kind |-> "string", v |-> lexical]
        /\ unit.args.config.handle_multival_strategy = ARRAY <=>
              unit.result[handle_vocab_uri_ignore(NamePredicate.value)].kind = "array"

\* "30"^^xsd:integer gives 30
C23_Witness ==
  /\ RowReturned
  /\ unit.args.literal = LiteralTerm(<<"3", "0">>, XSD_INTEGER)
  /\ RowValue = [kind |-> "number", v |-> <<"3", "0">>]

(***************************************************************************)
(* C24: temporal literals.  A literal with datatype xsd:date, xsd:dateTime *)
(* or xsd:time and a valid lexical form reaches the row of extract_params  *)
(* as a temporal value (Date, DateTime, LocalTime), not as a string; with  *)
(* an invalid lexical form the row carries the original string.            *)
(* literalToValue has no temporal branch: the row carries the string.      *)
(***************************************************************************)
TemporalKind(datatype) ==
  IF datatype = XSD_DATETIME THEN "DateTime"
  ELSE IF datatype = XSD_DATE THEN "Date"
  ELSE "LocalTime"

ValidForm(datatype) ==
  IF datatype = XSD_DATETIME THEN DateTimeForm
  ELSE IF datatype = XSD_DATE THEN DateForm
  ELSE TimeForm

C24_TemporalConversion ==
  RowReturned =>
    LET lexical == unit.args.literal.value
        datatype == unit.args.literal.datatype
    IN  datatype \in {XSD_DATE, XSD_DATETIME, XSD_TIME} =>
          IF lexical = ValidForm(datatype)
            THEN RowValue.kind = TemporalKind(datatype)
            ELSE RowValue = [kind |-> "string", v |-> lexical]

\* C24, what the code does: a temporal datatype never changes the value;
\* the row carries what it would carry for an xsd:string literal
C24_TemporalLeftAsWritten ==
  RowReturned =>
    LET literal == unit.args.literal
    IN  literal.datatype \in {XSD_DATE, XSD_DATETIME, XSD_TIME} =>
          unit.result = LiteralRow(unit.args.config, NamePredicate,
                                   LiteralTerm(literal.value, XSD_STRING))

(***************************************************************************)
(* C25: prefix configuration errors fail fast and leave the configuration  *)
(* unchanged.  set_custom_mapping, delete_custom_mapping and               *)
(* set_multival_prop_name with a prefix name that is neither a default nor *)
(* a custom prefix throw PrefixNotFoundException; set_custom_prefix with a *)
(* prefix name or a namespace already among the custom prefixes throws;    *)
(* and multival_props_names never holds the same predicate twice.          *)
(* The prefix is looked up with `in`, which also finds what the table      *)
(* inherits from Object.prototype, and set_custom_prefix looks at the      *)
(* namespaces only.                                                        *)
(***************************************************************************)
PrefixMethods == {"set_custom_mapping", "delete_custom_mapping", "set_multival_prop_name"}

ConfigReturned == unit.op \in PrefixMethods \cup {"set_custom_prefix"} /\ unit.returned

RegisteredPrefixes(c) == DOMAIN c.default_prefixes \cup DOMAIN c.custom_prefixes

RejectedWith(error) == unit.result = Rejected(unit.args.config, error)

NoPredicateTwice(c) ==
  \A i, j \in 1..Len(c.multival_props_names) :
    c.multival_props_names[i] = c.multival_props_names[j] => i = j

C25_PrefixErrorsFailFast ==
  /\ (ConfigReturned /\ unit.op \in PrefixMethods
        /\ unit.args.prefix_name \notin RegisteredPrefixes(unit.args.config)) =>
       RejectedWith(PrefixNotFoundException)
  /\ (ConfigReturned /\ unit.op = "set_custom_prefix"
        /\ \/ unit.args.name \in DOMAIN unit.args.config.custom_prefixes
           \/ unit.args.value \in Range(unit.args.config.custom_prefixes)) =>
       /\ unit.result.error # "none"
       /\ unit.result.config = unit.args.config
  /\ (unit.op \in PrefixMethods \cup {"set_custom_prefix", "Neo4jStoreConfig"} /\ unit.returned) =>
       NoPredicateTwice(unit.result.config)

\* C25, what the code does: a prefix name that is neither registered nor a
\* property of Object.prototype is rejected, a namespace already among the
\* custom prefixes is rejected, both with the configuration unchanged; a
\* registered prefix name is given its new namespace; the constructor
\* rejects a mapping of an unknown prefix; no predicate is stored twice
C25_PrefixErrorsOwnKeys ==
  /\ (ConfigReturned /\ unit.op \in PrefixMethods) =>
       IF In(unit.args.prefix_name, get_prefixes(unit.args.config))
         THEN unit.result.error = "none"
         ELSE RejectedWith(PrefixNotFoundException)
  /\ (ConfigReturned /\ unit.op = "set_custom_prefix") =>
       IF unit.args.value \in Range(unit.args.config.custom_prefixes)
         THEN RejectedWith(NamespaceAlreadyDefined)
         ELSE /\ unit.result.error = "none"
              /\ unit.result.config.custom_prefixes[unit.args.name] = unit.args.value
  /\ (unit.op = "Neo4jStoreConfig" /\ unit.returned) =>
       (unit.result.error = PrefixNotFoundException <=>
          \E i \in 1..Len(unit.args.custom_mappings) :
            unit.args.custom_mappings[i].prefixName = "zz")
  /\ (unit.op \in PrefixMethods \cup {"set_custom_prefix", "Neo4jStoreConfig"} /\ unit.returned) =>
       NoPredicateTwice(unit.result.config)

\* set_custom_mapping with the prefix name 'constructor' is accepted
C25_InheritedPrefixAccepted ==
  /\ unit.op = "set_custom_mapping" /\ unit.returned
  /\ unit.args.prefix_name = "constructor"
  /\ unit.result.error = "none"
  /\ unit.result.config # unit.args.config

(***************************************************************************)
(* C26: the thresholds of add.  With batching, after the triple is fed,    *)
(* add hands node queries to the driver only if node_buffer_size has       *)
(* reached buffer_max_size, and relationship queries only if               *)
(* rel_buffer_size has reached it when it is looked at; a flush of one     *)
(* side hands over no query of the other side.  Without batching, every    *)
(* accepted add finalizes the subject and hands over every pending row of  *)
(* both sides.                                                             *)
(***************************************************************************)
\* the store of add once the triple is fed (line 143)
Fed(st, quad) ==
  Only({ [checked EXCEPT !.current_subject =
            <<parse_triple(checked.current_subject[1], quad, checked.mappings).triple>>] :
           checked \in {__check_current_subject(st, quad.subject)} })

\* an add that reached its try block
FedAdd ==
  /\ last'.op = "add" /\ last'.wasOpen /\ calls' # calls
  /\ last'.quad[1].subject.termType = "NamedNode"
  /\ last'.error # ShortenStrictError

NodeThresholdReached(st) == st.node_buffer_size >= st.buffer_max_size
RelThresholdReached(st) == st.rel_buffer_size >= st.buffer_max_size

\* the store when add looks at rel_buffer_size
AtRelCheck(fed) ==
  IF NodeThresholdReached(fed) THEN [Finalized(fed) EXCEPT !.current_subject = <<>>] ELSE fed

C26_ThresholdsIndependent ==
  [][ FedAdd =>
        \E fed \in {Fed(store, last'.quad[1])} :
          IF store.batching
          THEN /\ SentRows(last'.sent, "node") # <<>> => NodeThresholdReached(fed)
               /\ SentRows(last'.sent, "rel") # <<>> => RelThresholdReached(AtRelCheck(fed))
               /\ last'.error = "none" =>
                    /\ NodeThresholdReached(fed) =>
                         /\ SentRows(last'.sent, "node") = NodeRowsBuffered(Finalized(fed))
                         /\ Clean' => SentRows(last'.sent, "node") # <<>>
                    /\ RelThresholdReached(AtRelCheck(fed)) =>
                         /\ SentRows(last'.sent, "rel") = RelRowsBuffered(Finalized(AtRelCheck(fed)))
                         /\ Clean' => SentRows(last'.sent, "rel") # <<>>
          ELSE last'.error = "none" =>
                 /\ store'.current_subject = <<>>
                 /\ NodeRowsBuffered(store') = <<>>
                 /\ RelRowsBuffered(store') = <<>>
                 /\ SentRows(last'.sent, "node") = NodeRowsBuffered(Finalized(fed))
                 /\ SentRows(last'.sent, "rel") = RelRowsBuffered(Finalized(fed))
                 /\ \E i \in 1..Len(SentRows(last'.sent, "node")) :
                      SentRows(last'.sent, "node")[i][<<"uri">>] = Str(last'.quad[1].subject.value) ]_vars

\* a batched add flushed the nodes at their threshold and left a
\* relationship row in its buffer
C26_Witness ==
  /\ last.op = "add" /\ last.error = "none" /\ store.batching
  /\ SentRows(last.sent, "node") # <<>>
  /\ SentRows(last.sent, "rel") = <<>>
  /\ RelRowsBuffered(store) # <<>>

\* an add without batching handed over a node row and a relationship row
C26_UnbatchedWitness ==
  /\ last.op = "add" /\ last.error = "none" /\ ~store.batching
  /\ SentRows(last.sent, "node") # <<>>
  /\ SentRows(last.sent, "rel") # <<>>

(***************************************************************************)
(* C27: the node grouping key depends on the label set only.  Two subjects *)
(* with the same set of labels get their rows in the same node query,      *)
(* whatever the order of their rdf:type triples; a subject without label   *)
(* goes to the group 'Resource'; and every row of a node query belongs to  *)
(* a subject whose label set is the label set of the query.                *)
(* extract_label_key joins the labels in the order of their arrival.       *)
(***************************************************************************)
ImportReturned == unit.op = "import" /\ unit.returned /\ unit.result.error = "none"

\* the labels the quads of a run give their subject
LabelSet(quads) ==
  { handle_vocab_uri_ignore(quads[i].object.value) :
      i \in {j \in 1..Len(quads) : quads[j].predicate.value = RDF_TYPE} }

NodeQueries(sent) == {i \in 1..Len(sent) : sent[i].query.kind = "node"}

\* the node queries that carry a row of the subject
QueriesOf(sent, subject) ==
  { i \in NodeQueries(sent) :
      \E k \in 1..Len(sent[i].params) : sent[i].params[k][URI_KEY] = Str(subject.value) }

C27_GroupedByLabelSet ==
  ImportReturned =>
    LET sent == unit.result.sent
        a == LabelSet(unit.args.first)
        b == LabelSet(unit.args.second)
    IN  /\ a = b => QueriesOf(sent, SubjectA) = QueriesOf(sent, SubjectB)
        /\ \A i \in QueriesOf(sent, SubjectA) :
             /\ Range(sent[i].query.labels) = a
             /\ a = {} => sent[i].key = RESOURCE
        /\ \A i \in QueriesOf(sent, SubjectB) :
             /\ Range(sent[i].query.labels) = b
             /\ b = {} => sent[i].key = RESOURCE

\* the labels of a run in the order of their arrival
LabelsInOrder(quads) ==
  SelectSeq([i \in 1..Len(quads) |->
               IF quads[i].predicate.value = RDF_TYPE
               THEN handle_vocab_uri_ignore(quads[i].object.value) ELSE <<>>],
            LAMBDA l : l # <<>>)

\* C27, what the code does: the subjects are grouped by the labels joined in
\* the order of arrival, and a group takes the labels of its first subject
C27_GroupedByJoinedLabels ==
  ImportReturned =>
    LET sent == unit.result.sent
        a == LabelsInOrder(unit.args.first)
        b == LabelsInOrder(unit.args.second)
    IN  /\ extract_label_key([labels |-> a]) = extract_label_key([labels |-> b]) <=>
             QueriesOf(sent, SubjectA) = QueriesOf(sent, SubjectB)
        /\ \A i \in QueriesOf(sent, SubjectA) :
             /\ sent[i].query.labels = a
             /\ sent[i].key = extract_label_key([labels |-> a])
        /\ Cardinality(QueriesOf(sent, SubjectA)) = 1
        /\ Cardinality(QueriesOf(sent, SubjectB)) = 1

(***************************************************************************)
(* C28: relationships are deduplicated per (type, from, to).  However      *)
(* often the same relationship triple is added, its URIs carried by        *)
(* distinct term objects, in one run of the subject or in several runs     *)
(* before a flush, the relationship composer of the type buffers no two    *)
(* rows with the same (from, to), and rel_buffer_size counts each pair     *)
(* once.                                                                   *)
(* add_rel keeps a Set of term objects, which tells objects apart and not  *)
(* URIs, and add_query_param pushes every row it is given.                 *)
(***************************************************************************)
FeedReturned == unit.op = "feed" /\ unit.returned /\ unit.result.error = "none"

NoRowTwice(rows) == \A i, j \in 1..Len(rows) : rows[i] = rows[j] => i = j

C28_RelationshipsDeduplicated ==
  FeedReturned =>
    LET st == unit.result.store
    IN  /\ \A i \in 1..Len(st.rel_buffer) : NoRowTwice(st.rel_buffer[i].composer.query_params)
        /\ st.rel_buffer_size = Cardinality(Range(RelRowsBuffered(st)))

\* the term objects that are the objects of the quads of ex:a from the i-th on,
\* up to the next quad of ex:b
RECURSIVE ObjectsOfRun(_, _)
ObjectsOfRun(quads, i) ==
  IF i > Len(quads) \/ quads[i].subject # SubjectA THEN {}
  ELSE {quads[i].object} \cup ObjectsOfRun(quads, i + 1)

RunStarts(quads) ==
  { i \in 1..Len(quads) :
      quads[i].subject = SubjectA /\ (i = 1 \/ quads[i - 1].subject # SubjectA) }

RECURSIVE SumOver(_, _)
SumOver(S, f) ==
  IF S = {} THEN 0
  ELSE LET x == CHOOSE y \in S : TRUE IN f[x] + SumOver(S \ {x}, f)

\* C28, what the code does: a run buffers one row for each term object, so
\* the same object added twice in a run gives one row, and rel_buffer_size
\* is the number of rows
C28_OneRowPerTermObject ==
  FeedReturned =>
    LET st == unit.result.store
        quads == unit.args.quads
    IN  /\ st.rel_buffer_size = Len(RelRowsBuffered(st))
        /\ Len(RelRowsBuffered(st)) =
             SumOver(RunStarts(quads),
                     [i \in RunStarts(quads) |-> Cardinality(ObjectsOfRun(quads, i))])

\* the same term object added twice in a run gives one row
C28_SameObjectOnce ==
  /\ FeedReturned
  /\ Len(unit.args.quads) = 3
  /\ unit.args.quads[1] = unit.args.quads[2]
  /\ Len(RelRowsBuffered(unit.result.store)) = 1

(***************************************************************************)
(* C29: every row of extract_params carries the URI of its subject under   *)
(* the key 'uri', whatever the names of the single-valued and multi-valued *)
(* properties, a property named 'uri' included.                            *)
(* extract_params writes the single-valued properties, then the URI, then  *)
(* the multi-valued properties: a multi-valued 'uri' replaces the URI.     *)
(***************************************************************************)
AnyRowReturned == unit.op = "extract_params" /\ unit.returned

C29_RowCarriesSubjectUri ==
  AnyRowReturned => unit.result[URI_KEY] = Str(TripleTermToString(SubjectA))

\* C29, what the code does: the row carries the URI unless a multi-valued
\* property is named 'uri'; then it carries the values of that property
C29_RowCarriesUriUnlessMultivalued ==
  AnyRowReturned =>
    IF /\ handle_vocab_uri_ignore(unit.args.predicate.value) = URI_KEY
       /\ unit.args.config.handle_multival_strategy = ARRAY
    THEN /\ unit.result[URI_KEY].kind = "array"
         /\ unit.result[URI_KEY].v = <<literalToValue(parse_triple(
               __create_current_subject(Neo4jStore(unit.args.config, NoDriver), SubjectA),
               Quad(SubjectA, unit.args.predicate, unit.args.literal),
               unit.args.config.custom_mappings).triple.multi_props[URI_KEY][1])>>
    ELSE unit.result[URI_KEY] = Str(TripleTermToString(SubjectA))

\* a single-valued property named 'uri' is replaced by the URI of the subject
C29_SingleValuedUriReplaced ==
  /\ AnyRowReturned
  /\ unit.args.predicate = UriPredicate
  /\ unit.args.config.handle_multival_strategy = OVERWRITE
  /\ unit.args.literal = LiteralTerm(<<"Donna", " ", "Fales">>, XSD_STRING)
  /\ unit.result = (URI_KEY :> Str(SubjectA.value))

(***************************************************************************)
(* C30: no-op query elimination.  A flush skips every node composer and    *)
(* every relationship composer that holds no row: no query is handed to    *)
(* the driver with an empty array of parameters, and a commit or close     *)
(* that finds nothing buffered hands over no query at all.                 *)
(***************************************************************************)
NothingBuffered(st) ==
  /\ NodeRowsBuffered(Finalized(st)) = <<>>
  /\ RelRowsBuffered(Finalized(st)) = <<>>

C30_NoEmptyQuery ==
  [][ calls' # calls =>
        /\ \A i \in 1..Len(last'.sent) : last'.sent[i].params # <<>>
        /\ (last'.op \in {"commit", "close"} /\ NothingBuffered(store)) =>
             last'.sent = <<>> ]_vars

\* a flush sent the rows of one node composer and skipped a composer and a
\* relationship composer that held none
C30_Witness ==
  /\ last.op \in {"add", "commit"} /\ last.error = "none"
  /\ Len(store.node_buffer) > 1
  /\ Len(store.rel_buffer) > 0
  /\ Cardinality(NodeQueries(last.sent)) = 1
  /\ SentRows(last.sent, "rel") = <<>>
  /\ \/ last.op = "add" /\ ~store.batching
     \/ last.flags = <<FALSE, FALSE>>

\* a commit of a store with nothing buffered sent nothing
C30_EmptyFlushWitness ==
  /\ last.op = "commit" /\ last.error = "none" /\ last.wasOpen
  /\ last.flags = <<FALSE, FALSE>>
  /\ Len(store.node_buffer) > 0
  /\ last.sent = <<>>

(***************************************************************************)
(* C31: a successful flush clears the rows of a composer and changes       *)
(* nothing else: the composer keeps its key, its place in the buffer, its  *)
(* labels and its single-valued and multi-valued property names.  Over the *)
(* life of the store the property names and the two buffers only grow.     *)
(***************************************************************************)
\* a composer without its rows
Emptied(composer) == [composer EXCEPT !.query_params = <<>>]

\* the entries of a buffer are those of an earlier buffer, possibly followed
\* by new ones, with no name forgotten
GrownFrom(before, after, nodes) ==
  /\ Len(after) >= Len(before)
  /\ \A i \in 1..Len(before) :
       /\ after[i].key = before[i].key
       /\ before[i].composer.props \subseteq after[i].composer.props
       /\ IF nodes
          THEN /\ after[i].composer.labels = before[i].composer.labels
               /\ before[i].composer.multi_props \subseteq after[i].composer.multi_props
          ELSE after[i].composer.rel_type = before[i].composer.rel_type

\* the buffer after a flush: every composer as it was, without the rows sent
FlushedFrom(before, after, sent) ==
  /\ Len(after) = Len(before)
  /\ \A i \in 1..Len(before) :
       /\ after[i].key = before[i].key
       /\ Emptied(after[i].composer) = Emptied(before[i].composer)
       /\ after[i].composer.query_params =
            IF \E k \in 1..Len(sent) : sent[k].key = before[i].key /\ sent[k].params = before[i].composer.query_params
            THEN <<>> ELSE before[i].composer.query_params

SentOf(sent, kind) == SelectSeq(sent, LAMBDA d : d.query.kind = kind)

C31_FlushClearsRowsOnly ==
  [][ calls' # calls =>
        /\ GrownFrom(store.node_buffer, store'.node_buffer, TRUE)
        /\ GrownFrom(store.rel_buffer, store'.rel_buffer, FALSE)
        /\ (last'.error = "none" /\ last'.wasOpen
              /\ (last'.op = "commit" \/ (last'.op = "close" /\ last'.flags = <<TRUE>>))) =>
             /\ FlushedFrom(Finalized(store).node_buffer, store'.node_buffer,
                            SentOf(last'.sent, "node"))
             /\ FlushedFrom(Finalized(store).rel_buffer, store'.rel_buffer,
                            SentOf(last'.sent, "rel")) ]_vars

\* a commit sent the rows of a composer that keeps its label and a property name
C31_Witness ==
  /\ last.op = "commit" /\ last.error = "none" /\ last.sent # <<>>
  /\ \E i \in 1..Len(store.node_buffer) :
       /\ store.node_buffer[i].composer.query_params = <<>>
       /\ store.node_buffer[i].composer.props # {}
       /\ store.node_buffer[i].composer.labels # <<>>
       /\ \E k \in 1..Len(last.sent) : last.sent[k].key = store.node_buffer[i].key

(***************************************************************************)
(* C32: the classification of a literal triple.  Under OVERWRITE every     *)
(* property is single-valued and the last value of the run stays, whatever *)
(* the allow-list holds.  Under ARRAY a property is multi-valued iff its   *)
(* predicate URI is in the allow-list or the allow-list is empty, and      *)
(* single-valued otherwise.  A multi-valued property keeps every value of  *)
(* the run, in the order of arrival.                                       *)
(***************************************************************************)
ParseReturned == unit.op = "parse_triple" /\ unit.returned

\* the literals the run gives to the predicate, as parse_triple stores them
ValuesOf(quads, predicate) ==
  LET of == SelectSeq(quads, LAMBDA q : q.predicate = predicate)
  IN  [i \in 1..Len(of) |-> ConvertedLiteral(ConvertValue(of[i].object), of[i].object.datatype)]

Multivalued(config, predicate) ==
  /\ config.handle_multival_strategy = ARRAY
  /\ \/ Includes(config.multival_props_names, predicate.value)
     \/ config.multival_props_names = <<>>

C32_MultivalClassification ==
  ParseReturned =>
    \A i \in 1..Len(unit.args.quads) :
      LET predicate == unit.args.quads[i].predicate
          name == handle_vocab_uri_ignore(predicate.value)
          values == ValuesOf(unit.args.quads, predicate)
      IN  IF Multivalued(unit.args.config, predicate)
          THEN /\ name \in DOMAIN unit.result.multi_props
               /\ unit.result.multi_props[name] = values
               /\ name \notin DOMAIN unit.result.props
          ELSE /\ name \in DOMAIN unit.result.props
               /\ unit.result.props[name] = values[Len(values)]
               /\ name \notin DOMAIN unit.result.multi_props

\* under ARRAY with ex:name in the allow-list, a run gives ex:name two
\* values, both kept, and ex:age two values, the last kept
C32_Witness ==
  /\ ParseReturned
  /\ unit.args.config.handle_multival_strategy = ARRAY
  /\ unit.args.config.multival_props_names = <<NamePredicate.value>>
  /\ <<"name">> \in DOMAIN unit.result.multi_props
  /\ Len(unit.result.multi_props[<<"name">>]) = 2
  /\ <<"age">> \in DOMAIN unit.result.props

\* under OVERWRITE with ex:name in the allow-list, ex:name keeps its last value
C32_OverwriteIgnoresAllowList ==
  /\ ParseReturned
  /\ unit.args.config.handle_multival_strategy = OVERWRITE
  /\ unit.args.config.multival_props_names = <<NamePredicate.value>>
  /\ Len(ValuesOf(unit.args.quads, NamePredicate)) = 2
  /\ unit.result.multi_props = EmptyMap

(***************************************************************************)
(* C33: parse_triple changes one part of the accumulator, chosen by the    *)
(* kind of the object.  With a named predicate, a literal object adds a    *)
(* property and leaves labels and relationships alone; a named object      *)
(* under rdf:type adds a label and leaves properties and relationships     *)
(* alone; a named object under another predicate adds the object to the    *)
(* relationship of the resolved predicate and leaves labels and properties *)
(* alone; any other object changes nothing.  A quad whose predicate is not *)
(* a named node, and a quad whose name cannot be resolved, change nothing. *)
(***************************************************************************)
OneParsed == unit.op = "parse_one" /\ unit.returned

SameLabels(t, u) == u.labels = t.labels
SameProps(t, u) == u.props = t.props /\ u.multi_props = t.multi_props
SameRelationships(t, u) == u.relationships = t.relationships

\* the names of the properties, single-valued or multi-valued
PropNames(t) == DOMAIN t.props \cup DOMAIN t.multi_props

\* the relationships as pairs of a type and a target
RelPairs(t) ==
  UNION { { <<t.relationships[i].rel_type, n>> : n \in Range(t.relationships[i].nodes) } :
            i \in 1..Len(t.relationships) }

Resolved(t, term) == TripleHandleVocabUri(t, unit.args.config.custom_mappings, term).value

C33_OnePartByObjectKind ==
  OneParsed =>
    LET t == unit.result.before
        u == unit.result.after.triple
        predicate == unit.args.quad.predicate
        object == unit.args.quad.object
    IN  IF unit.result.after.throws \/ predicate.termType # "NamedNode"
        THEN u = t
        ELSE IF object.termType = "Literal"
        THEN /\ SameLabels(t, u) /\ SameRelationships(t, u)
             /\ PropNames(u) = PropNames(t) \cup {Resolved(t, predicate)}
        ELSE IF object.termType = "NamedNode" /\ predicate.value = RDF_TYPE
        THEN /\ SameProps(t, u) /\ SameRelationships(t, u)
             /\ Range(u.labels) = Range(t.labels) \cup {Resolved(t, object)}
        ELSE IF object.termType = "NamedNode"
        THEN /\ SameLabels(t, u) /\ SameProps(t, u)
             /\ RelPairs(u) = RelPairs(t) \cup {<<Resolved(t, predicate), object>>}
        ELSE u = t

\* a class is added as a label to an accumulator that holds a relationship
\* already, and the relationships stay as they were
C33_Witness ==
  /\ OneParsed /\ ~unit.result.after.throws
  /\ unit.args.quad = Quad(SubjectA, TypePredicate, PersonClass)
  /\ unit.result.before.relationships # <<>>
  /\ unit.result.before.labels = <<>>
  /\ Len(unit.result.after.triple.labels) = 1
  /\ unit.result.after.triple.relationships = unit.result.before.relationships

\* a blank-node object leaves an accumulator with a property as it was
C33_BlankObjectWitness ==
  /\ OneParsed
  /\ unit.args.quad = Quad(SubjectA, NamePredicate, Blank)
  /\ PropNames(unit.result.before) # {}
  /\ unit.result.after = Parsed(unit.result.before)

(***************************************************************************)
(* C34: a subject that comes back after a quad of another subject gets a   *)
(* new, empty accumulator, and the data of its earlier run is a row of its *)
(* own.  Without a flush in between, a stream gives one node row for each  *)
(* maximal run of quads of the same subject, in the order of the runs,     *)
(* each with the data of its run alone: A, B, A gives three rows.          *)
(***************************************************************************)
\* the maximal runs of quads of the same subject, in order
RECURSIVE RunsOf(_)
RunsOf(quads) ==
  IF quads = <<>> THEN <<>>
  ELSE LET rest == RunsOf(Tail(quads))
       IN  IF rest # <<>> /\ rest[1][1].subject = Head(quads).subject
           THEN <<<<Head(quads)>> \o rest[1]>> \o Tail(rest)
           ELSE <<<<Head(quads)>>>> \o rest

\* the row of a run: the uri of its subject and the properties of its quads
RowOfRun(quads) ==
  [k \in {URI_KEY} \cup {handle_vocab_uri_ignore(q.predicate.value) : q \in Range(quads)} |->
     IF k = URI_KEY THEN Str(quads[1].subject.value)
     ELSE LET of == SelectSeq(quads, LAMBDA q : handle_vocab_uri_ignore(q.predicate.value) = k)
              object == of[Len(of)].object
          IN  literalToValue(ConvertedLiteral(ConvertValue(object), object.datatype))]

LiteralStream == \A i \in 1..Len(unit.args.quads) : unit.args.quads[i].object.termType = "Literal"

C34_OneRowPerRun ==
  (FeedReturned /\ LiteralStream) =>
    LET runs == RunsOf(unit.args.quads)
        rows == NodeRowsBuffered(Finalized(unit.result.store))
    IN  /\ unit.result.sent = <<>>
        /\ rows = [i \in 1..Len(runs) |-> RowOfRun(runs[i])]
        /\ unit.result.store.current_subject # <<>>
        /\ extract_params(unit.result.store.current_subject[1]) = RowOfRun(runs[Len(runs)])

\* A, B, A: the first run of ex:a has ex:name, the second has ex:age; three
\* rows, two of them of ex:a, none with both properties
C34_Witness ==
  /\ FeedReturned
  /\ unit.args.quads = <<Quad(SubjectA, NamePredicate, LiteralA),
                         Quad(SubjectB, NamePredicate, LiteralA),
                         Quad(SubjectA, AgePredicate, LiteralA)>>
  /\ Len(NodeRowsBuffered(unit.result.store)) = 2
  /\ Len(NodeRowsBuffered(Finalized(unit.result.store))) = 3
  /\ DOMAIN extract_params(unit.result.store.current_subject[1]) = {URI_KEY, <<"age">>}

(***************************************************************************)
(* C35: for a relationship (type, from, to) merged by several flushes, the *)
(* creation field holds the time of the flush that first created the edge  *)
(* and no later merge changes it; the update field holds the time of the   *)
(* latest flush that merged the edge, so that updated >= created after     *)
(* every merge.  A field name that is omitted is '_createdAt' or           *)
(* '_updatedAt'.                                                           *)
(***************************************************************************)
Merged == unit.op = "merge" /\ unit.returned

\* the field names the caller expects
CreatedName == IF unit.args.createdAtField = <<>> THEN "_createdAt" ELSE "since"
UpdatedName == IF unit.args.updatedAtField = <<>> THEN "_updatedAt" ELSE "seen"

\* the flushes among the first k that merge the edge
MergesOf(edge, k) ==
  { i \in 1..k : \E j \in 1..Len(unit.args.flushes[i].params) :
       LET param == unit.args.flushes[i].params[j]
       IN  edge = <<edge[1], param.from, param.to>> }

Earliest(S) == CHOOSE i \in S : \A j \in S : i <= j
Latest(S) == CHOOSE i \in S : \A j \in S : j <= i

C35_Timestamps ==
  Merged =>
    \A k \in 1..Len(unit.args.flushes) :
      LET edges == unit.result[k]
      IN  /\ \A edge \in DOMAIN edges :
               /\ MergesOf(edge, k) # {}
               /\ DOMAIN edges[edge] = {CreatedName, UpdatedName}
               /\ edges[edge][CreatedName] = unit.args.flushes[Earliest(MergesOf(edge, k))].now
               /\ edges[edge][UpdatedName] = unit.args.flushes[Latest(MergesOf(edge, k))].now
               /\ edges[edge][UpdatedName] >= edges[edge][CreatedName]
               /\ (k > 1 /\ edge \in DOMAIN unit.result[k - 1]) =>
                    edges[edge][CreatedName] = unit.result[k - 1][edge][CreatedName]
          /\ \A j \in 1..Len(unit.args.flushes[k].params) :
               <<(<<"name">>), unit.args.flushes[k].params[j].from,
                 unit.args.flushes[k].params[j].to>> \in DOMAIN edges

\* an edge created at time 1 is merged again at time 3 under the default
\* names: created stays 1, updated is 3
C35_Witness ==
  /\ Merged
  /\ unit.args.createdAtField = <<>> /\ unit.args.updatedAtField = <<>>
  /\ Len(unit.args.flushes) = 2
  /\ unit.args.flushes[1].now = 1 /\ unit.args.flushes[2].now = 3
  /\ \E edge \in DOMAIN unit.result[1] :
       /\ unit.result[1][edge] = [_createdAt |-> 1, _updatedAt |-> 1]
       /\ unit.result[2][edge] = [_createdAt |-> 1, _updatedAt |-> 3]

(***************************************************************************)
(* C37: between operations, after any sequence of open, add, commit and    *)
(* close calls, returned or raised, node_buffer_size is the number of rows *)
(* buffered over all node composers and rel_buffer_size the number of rows *)
(* buffered over all relationship composers.                               *)
(***************************************************************************)
C37_CountersMatchRows ==
  /\ store.node_buffer_size = Len(NodeRowsBuffered(store))
  /\ store.rel_buffer_size = Len(RelRowsBuffered(store))

(***************************************************************************)
(* C36: the buffers need no locking.  If the caller starts an add or a     *)
(* commit while an earlier add, commit or close is suspended at the driver *)
(* inside a flush, then once every call has completed without error and    *)
(* the store has been closed with commit, every row that was buffered has  *)
(* been written exactly once: none is dropped when the resumed flush       *)
(* clears the composer and resets the counter, none is written twice.      *)
(***************************************************************************)
Times(rows, row) == Cardinality({j \in 1..Len(rows) : rows[j] = row})

\* every call has completed, none has thrown, and close has closed the store
AllCompleted == loop.tasks = <<>> /\ ~loop.failed /\ ops > 0 /\ ~store.open

C36_EveryRowWrittenOnce ==
  AllCompleted =>
    \A row \in Range(loop.buffered) \cup Range(loop.written) :
      Times(loop.written, row) = Times(loop.buffered, row)

\* C36, the part on rows written twice
C36_NoRowWrittenTwice ==
  AllCompleted =>
    \A row \in Range(loop.written) : Times(loop.written, row) <= Times(loop.buffered, row)

\* C36, the part on rows dropped, when nothing is left in the store at the end
C36_NoRowDropped ==
  (AllCompleted /\ NodeRowsBuffered(store) = <<>> /\ RelRowsBuffered(store) = <<>>
     /\ store.current_subject = <<>>) =>
    \A row \in Range(loop.buffered) : Times(loop.written, row) >= Times(loop.buffered, row)

\* what the code does: a row that was buffered is never written, and another
\* row is written twice
C36_RowNeverWritten ==
  /\ AllCompleted
  /\ NodeRowsBuffered(store) = <<>> /\ RelRowsBuffered(store) = <<>>
  /\ store.current_subject = <<>>
  /\ \E row \in Range(loop.buffered) : Times(loop.written, row) = 0

C36_RowWrittenTwice ==
  /\ AllCompleted
  /\ \E row \in Range(loop.buffered) :
       Times(loop.buffered, row) = 1 /\ Times(loop.written, row) = 2

(***************************************************************************)
(* C38: with batching on and buffer_max_size >= 1, after every add that    *)
(* returns without error the node rows buffered over all node composers    *)
(* are at most buffer_max_size, whatever commits are made between the adds.*)
(***************************************************************************)
C38_NodeBufferBounded ==
  (store.batching /\ last.op = "add" /\ last.wasOpen /\ last.error = "none") =>
    Len(NodeRowsBuffered(store)) <= store.buffer_max_size

\* the relationship threshold is reached while the node counter is below
\* its own: commit(false, true) stores the open subject and the node rows
\* reach buffer_max_size
C38_Witness ==
  /\ store.batching /\ last.op = "add" /\ last.wasOpen /\ last.error = "none"
  /\ Kinds(last.sent) = <<"rel">>
  /\ Len(NodeRowsBuffered(store)) = store.buffer_max_size
  /\ \E i \in 1..Len(calls) : calls[i].op = "commit"

(***************************************************************************)
(* C39: when a pending write fails during close(true), close throws the    *)
(* error and does not complete: the store is still open, and neither the   *)
(* session nor the driver the store created has been closed.  close(true)  *)
(* on a store that is not open throws 'The Store must be open.'.           *)
(***************************************************************************)
CloseWithCommit(call) == call.op = "close" /\ call.flags = <<TRUE>>

C39_FailedCloseStaysOpen ==
  [][ CloseWithCommit(last') =>
        /\ ~store.open =>
             /\ last'.error = NotOpenError
             /\ last'.sent = <<>> /\ last'.released = <<>>
             /\ ~store'.open
        /\ (store.open /\ last'.error # "none") =>
             /\ last'.error = DriverError
             /\ store'.open /\ store'.session
             /\ store'.driver = store.driver /\ store'.driver # NoDriver
             /\ ~store'.driver[1].closed
             /\ last'.released = <<>> ]_vars

\* the relationship statement of close(true) fails after its node statement
C39_Witness ==
  /\ CloseWithCommit(last) /\ last.wasOpen
  /\ last.error = DriverError
  /\ Kinds(last.sent) = <<"node", "rel">>
  /\ store.open /\ store.session /\ store.driver_owned /\ ~store.driver[1].closed

\* close(true) after a close that returned
C39_ClosedWitness ==
  /\ CloseWithCommit(last) /\ ~last.wasOpen
  /\ last.error = NotOpenError
  /\ Closes = 1

(***************************************************************************)
(* C40: close(false) hands no write query to the driver and resets the     *)
(* open flag, the session, the driver the store created and total_triples, *)
(* nothing else: the open subject, every buffered row and both counters    *)
(* are kept.  After a later open, the first commit writes the rows that    *)
(* were pending before the close.                                          *)
(***************************************************************************)
CloseWithoutCommit(call) == call.op = "close" /\ call.flags = <<FALSE>>

\* the store after close(false): the four fields reset, the rest as it was
Discarded(st) ==
  [st EXCEPT !.open = FALSE, !.session = FALSE, !.total_triples = 0,
             !.driver = IF st.driver_owned THEN NoDriver ELSE @]

\* what a store holds to be written
Held(st) ==
  [current_subject |-> st.current_subject,
   node_buffer |-> st.node_buffer, rel_buffer |-> st.rel_buffer,
   node_buffer_size |-> st.node_buffer_size, rel_buffer_size |-> st.rel_buffer_size]

ReopenedAfterClose ==
  /\ last.op = "open" /\ last.error = "none"
  /\ Len(calls) >= 2 /\ calls[Len(calls) - 1].op = "close"

C40_CloseWithoutCommit ==
  [][ /\ CloseWithoutCommit(last') =>
           /\ last'.error = "none" /\ last'.sent = <<>>
           /\ db' = db
           /\ store' = Discarded(store)
      /\ (CloseWithoutCommit(last) /\ last'.op = "open") =>
           /\ Held(store') = Held(store)
           /\ last'.sent = <<>>
      /\ (ReopenedAfterClose /\ last'.op = "commit" /\ last'.flags = <<FALSE, FALSE>>
            /\ last'.error = "none") =>
           /\ SentRows(last'.sent, "node") = NodeRowsBuffered(Finalized(store))
           /\ SentRows(last'.sent, "rel") = RelRowsBuffered(Finalized(store)) ]_vars

\* open, add, close(false), open, commit: the commit writes the row of the subject
\* that was open at the close
C40_Witness ==
  /\ last.op = "commit" /\ last.error = "none"
  /\ Len(calls) = 5
  /\ calls[2].op = "add" /\ calls[2].ok /\ ~calls[2].flushed
  /\ calls[3].op = "close" /\ calls[3].ok /\ ~calls[3].flushed
  /\ calls[4].op = "open" /\ calls[4].ok
  /\ Len(SentRows(last.sent, "node")) = 1
  /\ store.total_triples = 0

\* close(false) of a store with an open subject and a buffered row
C40_RetainedWitness ==
  /\ CloseWithoutCommit(last) /\ last.wasOpen
  /\ store.current_subject # <<>>
  /\ NodeRowsBuffered(store) # <<>>
  /\ store.node_buffer_size > 0
  /\ ~store.open /\ ~store.session /\ store.driver = NoDriver /\ store.total_triples = 0

=========================================================================
